---- MODULE Spec2Model ----
(***************************************************************************)
(* Portal transform and traversal engine of web-portal-game.               *)
(*                                                                         *)
(* Lengths are integers in millimetres, velocities in mm/s, times in ms.   *)
(* A unit quaternion is represented by the rotation matrix it denotes      *)
(* (three columns); every surface of the level is axis aligned, so every   *)
(* rotation that occurs is a signed permutation matrix.  A Matrix4 without *)
(* scale is a record [r |-> rotation, t |-> translation].                  *)
(***************************************************************************)
EXTENDS Integers, Sequences, FiniteSets, TLC

VARIABLES portals, fps, controller, cube, game, last, rt, gl,
          editMode, interaction, heap, dom, sceneGraph, storage, manager

\* the editor, the interaction system, the objects the editor has created (by
\* id), the page, the scene graph and the level store: the objects around
\* the frame loop
session == <<editMode, interaction, heap, dom, sceneGraph, storage, manager>>

vars == <<portals, fps, controller, cube, game, last, rt, gl, session>>

(***************************************************************************)
(* Vector and matrix algebra (THREE.Vector3, Matrix4, Quaternion)          *)
(***************************************************************************)
Abs(n) == IF n < 0 THEN -n ELSE n

Max(a, b) == IF a > b THEN a ELSE b

Min(a, b) == IF a < b THEN a ELSE b

Clamp(v, lo, hi) == Max(lo, Min(hi, v))

\* const x = v; Body(x): v is evaluated once and Body reads the value
Eval(v, Body(_)) == CHOOSE y \in {Body(x) : x \in {v}} : TRUE

VAdd(a, b) == <<a[1] + b[1], a[2] + b[2], a[3] + b[3]>>

VSub(a, b) == <<a[1] - b[1], a[2] - b[2], a[3] - b[3]>>

VScale(a, k) == <<a[1] * k, a[2] * k, a[3] * k>>

Dot(a, b) == a[1] * b[1] + a[2] * b[2] + a[3] * b[3]

LenSq(a) == Dot(a, a)

\* rotation r (columns r[1], r[2], r[3]) applied to vector v
ApplyQuaternion(v, r) == VAdd(VAdd(VScale(r[1], v[1]), VScale(r[2], v[2])), VScale(r[3], v[3]))

\* product of two rotations: first b, then a
QMul(a, b) == <<ApplyQuaternion(b[1], a), ApplyQuaternion(b[2], a), ApplyQuaternion(b[3], a)>>

QInv(a) == << <<a[1][1], a[2][1], a[3][1]>>, <<a[1][2], a[2][2], a[3][2]>>, <<a[1][3], a[2][3], a[3][3]>> >>

QIdentity == << <<1, 0, 0>>, <<0, 1, 0>>, <<0, 0, 1>> >>

M4Identity == [r |-> QIdentity, t |-> <<0, 0, 0>>]

\* Matrix4.compose with unit scale
Compose(position, quaternion) == [r |-> quaternion, t |-> position]

\* Matrix4.multiplyMatrices(a, b) = a * b
M4Mul(a, b) == [r |-> QMul(a.r, b.r), t |-> VAdd(ApplyQuaternion(b.t, a.r), a.t)]

\* Matrix4.invert of a rigid transform
M4Invert(a) == [r |-> QInv(a.r), t |-> VScale(ApplyQuaternion(a.t, QInv(a.r)), -1)]

\* Vector3.applyMatrix4
ApplyMatrix4(v, m) == VAdd(ApplyQuaternion(v, m.r), m.t)

\* Matrix4.makeRotationAxis(axis, PI): c = -1, s = 0, t = 2
MakeRotationAxisPi(a) ==
  << <<2 * a[1] * a[1] - 1, 2 * a[1] * a[2], 2 * a[1] * a[3]>>,
     <<2 * a[1] * a[2], 2 * a[2] * a[2] - 1, 2 * a[2] * a[3]>>,
     <<2 * a[1] * a[3], 2 * a[2] * a[3], 2 * a[3] * a[3] - 1>> >>

\* rotation matrix of the (unnormalised) quaternion <<x, y, z, w>>
QuatToRot(q) ==
  LET x == q[1]
      y == q[2]
      z == q[3]
      w == q[4]
      n == x * x + y * y + z * z + w * w
  IN << <<(w * w + x * x - y * y - z * z) \div n, (2 * (x * y + w * z)) \div n, (2 * (x * z - w * y)) \div n>>,
        <<(2 * (x * y - w * z)) \div n, (w * w - x * x + y * y - z * z) \div n, (2 * (y * z + w * x)) \div n>>,
        <<(2 * (x * z + w * y)) \div n, (2 * (y * z - w * x)) \div n, (w * w - x * x - y * y + z * z) \div n>> >>

\* Quaternion.setFromUnitVectors(vFrom, vTo), before normalisation
SetFromUnitVectors(vFrom, vTo) ==
  LET r == Dot(vFrom, vTo) + 1
  IN IF r <= 0
     THEN IF Abs(vFrom[1]) > Abs(vFrom[3])
          THEN QuatToRot(<<-vFrom[2], vFrom[1], 0, 0>>)
          ELSE QuatToRot(<<0, -vFrom[3], vFrom[2], 0>>)
     ELSE QuatToRot(<<vFrom[2] * vTo[3] - vFrom[3] * vTo[2],
                      vFrom[3] * vTo[1] - vFrom[1] * vTo[3],
                      vFrom[1] * vTo[2] - vFrom[2] * vTo[1], r>>)

(***************************************************************************)
(* CONFIG                                                                  *)
(***************************************************************************)
PlayerRadius == 200

PlayerMinHeight == 1000

GroundedThreshold == 1020

PortalRadius == 600

PlacementOffset == 20

RoomScale == 10000

HalfRoom == RoomScale \div 2

PortalNames == {"blue", "orange"}

PortalOrder == <<"blue", "orange">>

Other(p) == IF p = "blue" THEN "orange" ELSE "blue"

(***************************************************************************)
(* Portal                                                                  *)
(***************************************************************************)
\* new Portal(...)
NewPortal == [isPlaced |-> FALSE, linked |-> "none", position |-> <<0, 0, 0>>,
              quaternion |-> QIdentity, matrixWorld |-> M4Identity, radius |-> PortalRadius]

\* Portal.link(other), for this = a
Link(P, a) == [P EXCEPT ![a].linked = Other(a), ![Other(a)].linked = a]

\* Portal.placeAt(hit); the level's surfaces are unrotated boxes, so the
\* normal matrix leaves the face normal as it is
PlaceAt(P, a, hit) ==
  [P EXCEPT ![a].position = VAdd(hit.point, VScale(hit.normal, PlacementOffset)),
            ![a].quaternion = SetFromUnitVectors(<<0, 0, 1>>, hit.normal),
            ![a].isPlaced = TRUE]

\* the world position read into the portal's own position vector and moved
\* off the surface there
WorldPositionInPlace(P, a) ==
  [P EXCEPT ![a].matrixWorld = Compose(P[a].position, P[a].quaternion),
            ![a].position = VAdd(@, VScale(ApplyQuaternion(<<0, 0, 1>>, P[a].quaternion), PlacementOffset))]

\* Object3D.updateWorldMatrix / updateMatrixWorld of portal a (child of the scene)
UpdateWorldMatrix(P, a) == [P EXCEPT ![a].matrixWorld = Compose(P[a].position, P[a].quaternion)]

\* Scene.updateMatrixWorld(true)
UpdateMatrixWorld(P) == [a \in PortalNames |-> [P[a] EXCEPT !.matrixWorld = Compose(P[a].position, P[a].quaternion)]]

\* new Vector3(0,0,1).applyQuaternion(p.getWorldQuaternion(..)): outward normal
PortalNormal(P, a) == ApplyQuaternion(<<0, 0, 1>>, P[a].quaternion)

\* Math.abs(normal.y) > 0.7
IsHorizontal(n) == 10 * Abs(n[2]) > 7

\* a flip about the exit portal's local Y axis whatever its orientation
RotationAxisLocalY(P, b) == ApplyQuaternion(<<0, 1, 0>>, P[b].quaternion)

\* the axis of the 180 degree flip chosen from the exit portal b
RotationAxis(P, b) ==
  IF IsHorizontal(PortalNormal(P, b))
  THEN ApplyQuaternion(<<1, 0, 0>>, P[b].quaternion)
  ELSE ApplyQuaternion(<<0, 1, 0>>, P[b].quaternion)

\* mB * mAInv, without the 180 degree flip between them
TransformMatrixNoFlip(P, a) ==
  LET b == P[a].linked
      mAInv == M4Invert(P[a].matrixWorld)
      mB == P[b].matrixWorld
  IN M4Mul(mB, mAInv)

\* X of Portal.transformThrough for entry a: mB * rotFlip * mAInv, the two
\* world matrices being read before getWorldQuaternion refreshes them
TransformMatrix(P, a) ==
  LET b == P[a].linked
      mAInv == M4Invert(P[a].matrixWorld)
      mB == P[b].matrixWorld
      rotFlip == [r |-> MakeRotationAxisPi(RotationAxis(P, b)), t |-> <<0, 0, 0>>]
  IN M4Mul(M4Mul(mB, rotFlip), mAInv)

\* a transform that carries the velocity through X as a point, translation
\* included
TransformThroughVelocityAsPoint(P, a, pose) ==
  Eval(TransformMatrix(P, a), LAMBDA X :
    [position |-> ApplyMatrix4(pose.position, X),
     quaternion |-> QMul(X.r, pose.quaternion),
     velocity |-> ApplyMatrix4(pose.velocity, X)])

\* Portal.transformThrough({position, quaternion, velocity}) for entry a
TransformThrough(P, a, pose) ==
  Eval(TransformMatrix(P, a), LAMBDA X :
    LET qX == X.r
    IN [position |-> ApplyMatrix4(pose.position, X),
        quaternion |-> QMul(qX, pose.quaternion),
        velocity |-> ApplyQuaternion(pose.velocity, qX)])

\* new THREE.PerspectiveCamera(...): the virtual camera of a new portal
NewVirtualCam == [position |-> <<0, 0, 0>>, quaternion |-> QIdentity]

\* Portal.updateVirtualCamera(mainCam): position and quaternion of virtualCam
\* afterwards; the early return leaves the virtual camera vc as it was
UpdateVirtualCamera(P, a, cam, vc) ==
  IF P[a].linked = "none" \/ ~P[a].isPlaced \/ ~P[P[a].linked].isPlaced
  THEN vc
  ELSE LET b == P[a].linked
           M_player == Compose(cam.position, cam.quaternion)
           M_entryInv == M4Invert(P[a].matrixWorld)
           M_exit == P[b].matrixWorld
           normalB == ApplyQuaternion(<<0, 0, 1>>, P[b].quaternion)
           rotationAxis == IF 10 * Abs(normalB[2]) > 7
                           THEN ApplyQuaternion(<<1, 0, 0>>, P[b].quaternion)
                           ELSE ApplyQuaternion(<<0, 1, 0>>, P[b].quaternion)
           R180 == [r |-> MakeRotationAxisPi(rotationAxis), t |-> <<0, 0, 0>>]
           Mv == M4Mul(M4Mul(M_exit, R180), M4Mul(M_entryInv, M_player))
       IN [position |-> Mv.t, quaternion |-> Mv.r]

(***************************************************************************)
(* CONFIG.traversal and the constants of the traversal code                *)
(***************************************************************************)
\* p.radius * CONFIG.traversal.wallTriggerDistance (1.5)
WallTriggerDistance == (PortalRadius * 15) \div 10

\* p.radius * CONFIG.traversal.floorTriggerDistance (1.2)
FloorTriggerDistance == (PortalRadius * 12) \div 10

\* p.radius * CONFIG.traversal.floorApertureMultiplier (1.15)
FloorAperture == (PortalRadius * 115) \div 100

CeilingVerticalRange == 1500

FloorVerticalRange == 1000

\* moveDir.lengthSq() < 0.001 (square metres), in square millimetres
MinMoveLenSq == 1000

CeilingVelocityThreshold == 500

\* velocityDotNormal < -0.1 (m/s)
CeilingApproachSpeed == 100

PlayerOffsetDistance == 10

PlayerCooldown == 200

CubeCooldown == 150

CubeSize == 200

CubeExitEpsilon == 10

\* CONFIG.animation.maxDeltaTime
MaxDeltaTime == 50

\* CONFIG.interaction.grabCheckDistance
GrabCheckDistance == 3000

\* CONFIG.interaction.grabDistance
GrabDistance == 1000

\* CONFIG.traversal.orientationCorrectionDuration, in ms
OrientationCorrectionDuration == 500

\* a . n / |a| < -num/den for a unit vector n, without square roots
DotBelow(a, n, num, den) ==
  /\ Dot(a, n) < 0
  /\ den * den * Dot(a, n) * Dot(a, n) > num * num * LenSq(a)

\* v - n (v . n): the part of v in the plane of normal n
PlanarOffset(v, n) == VSub(v, VScale(n, Dot(v, n)))

(***************************************************************************)
(* LevelBuilder: chamber bounds and the obstacles (second floor, goal)     *)
(***************************************************************************)
ChamberMin == <<-HalfRoom, 0, -HalfRoom>>

ChamberMax == <<HalfRoom, RoomScale, HalfRoom>>

\* Box3.setFromObject of the second floor platform and of the goal door
LevelObstacles ==
  << [min |-> <<-5000, 4900, -5000>>, max |-> <<0, 5100, 0>>],
     [min |-> <<-3000, 5000, -2600>>, max |-> <<-2000, 7000, -2400>>] >>

GoalPosition == <<-2500, 6000, -2500>>

GoalTriggerDistance == 1200

\* box.clone().expandByScalar(r)
ExpandByScalar(box, r) == [min |-> VSub(box.min, <<r, r, r>>), max |-> VAdd(box.max, <<r, r, r>>)]

\* Box3.containsPoint
ContainsPoint(box, pt) == \A i \in 1..3 : box.min[i] <= pt[i] /\ pt[i] <= box.max[i]

\* the AABB push-out shared by the player and the cube: the axis of least
\* penetration, the direction and the depth
PushOut(box, pt) ==
  LET pen == [i \in 1..3 |-> Min(box.max[i] - pt[i], pt[i] - box.min[i])]
      axis == IF pen[1] < pen[2] /\ pen[1] < pen[3] THEN 1 ELSE IF pen[2] < pen[3] THEN 2 ELSE 3
      dir == IF 2 * pt[axis] >= box.min[axis] + box.max[axis] THEN 1 ELSE -1
  IN [axis |-> axis, dir |-> dir, pos |-> [pt EXCEPT ![axis] = pt[axis] + pen[axis] * dir]]

(***************************************************************************)
(* PlayerController.resolvePlayerCollision                                 *)
(***************************************************************************)
\* orientationCorrection = null; of an armed correction, elapsed is
\* performance.now() - startTime as of the last frame, up to the duration
NoCorrection == [armed |-> FALSE, startQuat |-> QIdentity, elapsed |-> 0]

\* a correction is armed at every floor or ceiling exit
ArmAtHorizontalExit(exitNormal, quaternion) == IsHorizontal(exitNormal)

\* exitIsHorizontal and isUpsideDown of resolvePlayerCollision, for the
\* normal of the exit portal and the player's quaternion after the transform
ShouldArm(exitNormal, quaternion) ==
  IsHorizontal(exitNormal) /\ ApplyQuaternion(<<0, 1, 0>>, quaternion)[2] < 0

\* the cooldown left as it is
NoDecay(cooldown, dt) == cooldown

\* this.portalCooldown = Math.max(0, this.portalCooldown - dt)
Decay(cooldown, dt) == Max(0, cooldown - dt)

\* the in-range test and the trigger policy of one portal p for the clamped
\* candidate position pos, previous position prev and fps.velocity vel
PlayerInRange(P, p, pos) ==
  LET portalPos == P[p].position
      portalNormal == PortalNormal(P, p)
      isHorizontal == IsHorizontal(portalNormal)
      toPlayer == VSub(pos, portalPos)
      distanceAlongNormal == Dot(toPlayer, portalNormal)
      off == PlanarOffset(toPlayer, portalNormal)
      isFloor == isHorizontal /\ portalNormal[2] > 0
      isCeiling == isHorizontal /\ portalNormal[2] < 0
      triggerDistance == IF isHorizontal THEN FloorTriggerDistance ELSE WallTriggerDistance
  IN IF isCeiling
     THEN LenSq(off) < triggerDistance * triggerDistance /\ Abs(distanceAlongNormal) < CeilingVerticalRange
     ELSE IF isFloor
          THEN LenSq(off) < triggerDistance * triggerDistance /\ Abs(distanceAlongNormal) < FloorVerticalRange
          ELSE LenSq(toPlayer) < triggerDistance * triggerDistance

PlayerShouldTrigger(P, p, pos, prev, vel) ==
  LET portalPos == P[p].position
      portalNormal == PortalNormal(P, p)
      isHorizontal == IsHorizontal(portalNormal)
      isFloor == isHorizontal /\ portalNormal[2] > 0
      isCeiling == isHorizontal /\ portalNormal[2] < 0
      moveDir == VSub(pos, prev)
      footPos == <<pos[1], PlayerMinHeight, pos[3]>>
      grounded == pos[2] <= GroundedThreshold
      insideAperture == LenSq(PlanarOffset(VSub(footPos, portalPos), portalNormal)) <= FloorAperture * FloorAperture
  IN /\ LenSq(moveDir) >= MinMoveLenSq
     /\ IF isFloor
        THEN (grounded /\ insideAperture) \/ DotBelow(moveDir, portalNormal, 1, 10)
        ELSE IF isCeiling
             THEN vel[2] > CeilingVelocityThreshold /\ Dot(vel, portalNormal) < -CeilingApproachSpeed
             ELSE DotBelow(moveDir, portalNormal, 2, 10)

\* a guard that looks at p alone and not at the portal it is linked to
PortalActiveOwnPlacement(P, p) == P[p].isPlaced /\ P[p].linked # "none"

\* whether the loop body reaches the tests for p (not skipped by the guards)
PortalActive(P, p) == P[p].isPlaced /\ P[p].linked # "none" /\ P[P[p].linked].isPlaced

\* a loop without the cooldown test
RECURSIVE PlayerPortalLoopNoCooldown(_, _, _, _, _, _, _)
PlayerPortalLoopNoCooldown(P, seq, i, cooldown, pos, prev, vel) ==
  IF i > Len(seq) THEN [trigger |-> "none", portals |-> P, count |-> 0]
  ELSE LET p == seq[i]
       IN IF ~PortalActive(P, p)
          THEN PlayerPortalLoopNoCooldown(P, seq, i + 1, cooldown, pos, prev, vel)
          ELSE LET P1 == UpdateWorldMatrix(P, p)
               IN IF PlayerInRange(P1, p, pos) /\ PlayerShouldTrigger(P1, p, pos, prev, vel)
                  THEN [trigger |-> p, portals |-> P1, count |-> 1]
                  ELSE PlayerPortalLoopNoCooldown(P1, seq, i + 1, cooldown, pos, prev, vel)

\* a loop that goes on to the next portal after a trigger instead of returning
RECURSIVE PlayerPortalLoopNoReturn(_, _, _, _, _, _, _)
PlayerPortalLoopNoReturn(P, seq, i, cooldown, pos, prev, vel) ==
  IF i > Len(seq) THEN [trigger |-> "none", portals |-> P, count |-> 0]
  ELSE LET p == seq[i]
       IN IF ~PortalActive(P, p) \/ cooldown > 0
          THEN PlayerPortalLoopNoReturn(P, seq, i + 1, cooldown, pos, prev, vel)
          ELSE LET P1 == UpdateWorldMatrix(P, p)
                   rest == PlayerPortalLoopNoReturn(P1, seq, i + 1, cooldown, pos, prev, vel)
               IN IF PlayerInRange(P1, p, pos) /\ PlayerShouldTrigger(P1, p, pos, prev, vel)
                  THEN [trigger |-> p, portals |-> rest.portals, count |-> 1 + rest.count]
                  ELSE rest

\* the portal loop: first portal of seq, from index i on, that triggers, with
\* the world matrices refreshed by getWorldPosition on the way; count is the
\* number of portals the call sends the player through
RECURSIVE PlayerPortalLoop(_, _, _, _, _, _, _)
PlayerPortalLoop(P, seq, i, cooldown, pos, prev, vel) ==
  IF i > Len(seq) THEN [trigger |-> "none", portals |-> P, count |-> 0]
  ELSE LET p == seq[i]
       IN IF ~PortalActive(P, p) \/ cooldown > 0
          THEN PlayerPortalLoop(P, seq, i + 1, cooldown, pos, prev, vel)
          ELSE LET P1 == UpdateWorldMatrix(P, p)
               IN IF PlayerInRange(P1, p, pos) /\ PlayerShouldTrigger(P1, p, pos, prev, vel)
                  THEN [trigger |-> p, portals |-> P1, count |-> 1]
                  ELSE PlayerPortalLoop(P1, seq, i + 1, cooldown, pos, prev, vel)

\* the obstacle loop over obs from index i on: position and velocity.y
RECURSIVE ResolveObstacles(_, _, _, _, _)
ResolveObstacles(obs, i, r, pos, vy) ==
  IF i > Len(obs) THEN [pos |-> pos, vy |-> vy]
  ELSE LET expanded == ExpandByScalar(obs[i], r)
       IN IF ContainsPoint(expanded, pos)
          THEN LET o == PushOut(expanded, pos)
               IN ResolveObstacles(obs, i + 1, r, o.pos,
                                   IF o.axis = 2 /\ o.dir > 0 THEN Max(0, vy) ELSE vy)
          ELSE ResolveObstacles(obs, i + 1, r, pos, vy)

\* the teleport of the player through p: pose after the exit offset
PlayerExit(P, p, pos, f) ==
  Eval(TransformThrough(P, p, [position |-> pos, quaternion |-> f.quaternion, velocity |-> f.velocity]),
       LAMBDA transformed :
    LET b == P[p].linked
        exitNormal == PortalNormal(P, b)
        dist == Dot(exitNormal, VSub(transformed.position, P[b].position))
        outPos == IF dist < PlayerRadius + 1
                  THEN VAdd(transformed.position, VScale(exitNormal, (PlayerRadius + PlayerOffsetDistance) - dist))
                  ELSE transformed.position
    IN [position |-> outPos, quaternion |-> transformed.quaternion, velocity |-> transformed.velocity])

\* resolvePlayerCollision(prev, next, portals = seq, dt) on controller c and
\* FPS controller f: the returned position and the state it leaves
ResolvePlayerCollision(P, c, f, prev, next, seq, dt, obs) ==
  Eval(Decay(c.portalCooldown, dt), LAMBDA cooldown :
  Eval(<<Clamp(next[1], ChamberMin[1] + PlayerRadius, ChamberMax[1] - PlayerRadius),
         Max(next[2], PlayerMinHeight),
         Clamp(next[3], ChamberMin[3] + PlayerRadius, ChamberMax[3] - PlayerRadius)>>, LAMBDA pos :
  Eval(PlayerPortalLoop(P, seq, 1, cooldown, pos, prev, f.velocity), LAMBDA loop :
    IF loop.trigger # "none"
    THEN Eval(PlayerExit(loop.portals, loop.trigger, pos, f), LAMBDA out :
           LET p == loop.trigger
               b == P[p].linked
               arms == ShouldArm(PortalNormal(P, b), out.quaternion)
           IN [ret |-> out.position,
               fps |-> [f EXCEPT !.position = out.position, !.quaternion = out.quaternion, !.velocity = out.velocity],
               controller |-> [portalCooldown |-> PlayerCooldown,
                               orientationCorrection |->
                                 IF arms
                                 THEN [armed |-> TRUE, startQuat |-> out.quaternion, elapsed |-> 0]
                                 ELSE c.orientationCorrection],
               portals |-> UpdateWorldMatrix(loop.portals, b),
               trigger |-> p, transforms |-> loop.count, pos |-> pos, cooldown |-> cooldown,
               armed |-> arms, outQuat |-> out.quaternion])
    ELSE Eval(ResolveObstacles(obs, 1, PlayerRadius, pos, f.velocity[2]), LAMBDA o :
           [ret |-> o.pos,
            fps |-> [f EXCEPT !.velocity = [f.velocity EXCEPT ![2] = o.vy]],
            controller |-> [c EXCEPT !.portalCooldown = cooldown],
            portals |-> loop.portals,
            trigger |-> "none", transforms |-> loop.count, pos |-> pos, cooldown |-> cooldown,
            armed |-> FALSE, outQuat |-> f.quaternion]))))

(***************************************************************************)
(* FPSController                                                           *)
(***************************************************************************)
FpsSpeed == 4500

\* 9.8 m/s^2 over dt milliseconds, in mm/s
GravityStep(dt) == (98 * dt) \div 10

\* a velocity (mm/s) over dt milliseconds, rounded down to the millimetre
OverDt(v, dt) == (v * dt) \div 1000

\* Vector3(0, 0, -1).applyQuaternion(q) with y set to 0 and normalised; a
\* vertical forward projects to the zero vector, which normalize() keeps
HorizontalForward(q) ==
  LET fw == ApplyQuaternion(<<0, 0, -1>>, q)
  IN <<fw[1], 0, fw[3]>>

\* FPSController.update(dt, collisionFn) with collisionFn the call of
\* resolvePlayerCollision(prev, next, seq, dt) made by updatePhysics; the
\* strafe keys are not pressed
FpsUpdate(P, c, f, seq, dt, obs) ==
  IF ~f.enabled
  THEN [fps |-> f, controller |-> c, portals |-> P, called |-> FALSE,
        trigger |-> "none", transforms |-> 0, pos |-> f.position, prev |-> f.position,
        cooldown |-> c.portalCooldown, vel |-> f.velocity, armed |-> FALSE, outQuat |-> f.quaternion]
  ELSE LET directionZ == (IF f.moveBack THEN 1 ELSE 0) - (IF f.moveFwd THEN 1 ELSE 0)
           move == VScale(HorizontalForward(f.quaternion), (-directionZ) * FpsSpeed)
           vy == f.velocity[2] - GravityStep(dt)
           f1 == [f EXCEPT !.velocity = [f.velocity EXCEPT ![2] = vy]]
           delta == <<OverDt(move[1], dt), OverDt(vy, dt), OverDt(move[3], dt)>>
           newPos == VAdd(f.position, delta)
       IN Eval(f1, LAMBDA g1 :
          Eval(ResolvePlayerCollision(P, c, g1, f.position, newPos, seq, dt, obs), LAMBDA res :
            LET f2 == [res.fps EXCEPT !.position = res.ret]
                f3 == IF res.ret[2] <= 1000
                      THEN [res.fps EXCEPT !.velocity = [res.fps.velocity EXCEPT ![2] = 0],
                                           !.canJump = TRUE,
                                           !.position = [res.ret EXCEPT ![2] = 1000]]
                      ELSE f2
            IN [fps |-> f3, controller |-> res.controller, portals |-> res.portals, called |-> TRUE,
                trigger |-> res.trigger, transforms |-> res.transforms, pos |-> res.pos, prev |-> f.position,
                cooldown |-> res.cooldown, vel |-> g1.velocity, armed |-> res.armed, outQuat |-> res.outQuat]))

\* the camera has its forward axis horizontal and its up axis off world up
Rolled(q) == ApplyQuaternion(<<0, 0, -1>>, q)[2] = 0 /\ ApplyQuaternion(<<0, 1, 0>>, q) # <<0, 1, 0>>

Cross(a, b) == <<a[2] * b[3] - a[3] * b[2], a[3] * b[1] - a[1] * b[3], a[1] * b[2] - a[2] * b[1]>>

\* the same forward axis with world up restored
Upright(q) == <<Cross(<<0, 1, 0>>, q[3]), <<0, 1, 0>>, q[3]>>

\* performance.now() has advanced by w ms since the last frame
Elapse(c, w) ==
  [c EXCEPT !.orientationCorrection.elapsed =
              IF c.orientationCorrection.armed THEN Min(OrientationCorrectionDuration, @ + w) ELSE @]

\* applyUpVectorRecovery followed by updateOrientationCorrection.  Both leave
\* a camera that is level, or looks straight up or down, as it is.  The
\* turning of a rolled camera is not followed step by step: settled says
\* whether the per-frame roll damping has taken the roll out by this frame,
\* and the interpolation of an armed correction ends, with the camera at
\* its target, on the frame where progress = min(elapsed / duration, 1)
\* reaches 1
RecoverOrientation(c, f, settled) ==
  LET done == c.orientationCorrection.armed /\ c.orientationCorrection.elapsed >= OrientationCorrectionDuration
  IN [fps |-> IF (settled \/ done) /\ Rolled(f.quaternion) THEN [f EXCEPT !.quaternion = Upright(f.quaternion)] ELSE f,
      controller |-> IF done THEN [c EXCEPT !.orientationCorrection = NoCorrection] ELSE c]

(***************************************************************************)
(* PhysicsCube.update                                                      *)
(***************************************************************************)
CubeHalf == CubeSize \div 2

\* v * k / 10, the restitution factors -0.4, -0.2, -0.3
Tenths(v, k) == (v * k) \div 10

\* the crossing test of the cube against portal p: the hit point, or no hit
CubeCrossing(P, p, prev, next) ==
  LET n == PortalNormal(P, p)
      center == P[p].position
      d0 == Dot(n, VSub(prev, center))
      d1 == Dot(n, VSub(next, center))
      half == CubeHalf
      crossesFront == d0 > half /\ d1 <= half
      crossesBack == d0 < -half /\ d1 >= -half
      target == IF d0 > 0 THEN half ELSE -half
      denom == d1 - d0
      num == IF denom < 0 THEN -(target - d0) ELSE target - d0
      den == Abs(denom)
      tnum == IF denom # 0 THEN Clamp(num, 0, den) ELSE 0
      tden == IF denom # 0 THEN den ELSE 1
      hitPoint == [i \in 1..3 |-> prev[i] + ((next[i] - prev[i]) * tnum) \div tden]
      off == PlanarOffset(VSub(hitPoint, center), n)
  IN [hit |-> (crossesFront \/ crossesBack) /\ LenSq(off) <= PortalRadius * PortalRadius,
      hitPoint |-> hitPoint]

\* the portal loop of the cube, ended by break at the first crossing
RECURSIVE CubePortalLoop(_, _, _, _, _, _)
CubePortalLoop(P, seq, i, cooldown, prev, next) ==
  IF i > Len(seq) THEN [trigger |-> "none", portals |-> P, hitPoint |-> next, count |-> 0]
  ELSE LET p == seq[i]
       IN IF ~PortalActive(P, p) \/ cooldown > 0
          THEN CubePortalLoop(P, seq, i + 1, cooldown, prev, next)
          ELSE LET P1 == UpdateWorldMatrix(P, p)
                   x == CubeCrossing(P1, p, prev, next)
               IN IF x.hit
                  THEN [trigger |-> p, portals |-> P1, hitPoint |-> x.hitPoint, count |-> 1]
                  ELSE CubePortalLoop(P1, seq, i + 1, cooldown, prev, next)

\* the six chamber-bound tests, in the order of the code
CubeBounds(pos, vel) ==
  LET half == CubeHalf
      x1 == IF pos[1] - half < ChamberMin[1] THEN [p |-> ChamberMin[1] + half, v |-> Tenths(vel[1], -4)] ELSE [p |-> pos[1], v |-> vel[1]]
      x2 == IF x1.p + half > ChamberMax[1] THEN [p |-> ChamberMax[1] - half, v |-> Tenths(x1.v, -4)] ELSE x1
      y1 == IF pos[2] - half < ChamberMin[2] THEN [p |-> ChamberMin[2] + half, v |-> Tenths(vel[2], -2)] ELSE [p |-> pos[2], v |-> vel[2]]
      y2 == IF y1.p + half > ChamberMax[2] THEN [p |-> ChamberMax[2] - half, v |-> Tenths(y1.v, -4)] ELSE y1
      z1 == IF pos[3] - half < ChamberMin[3] THEN [p |-> ChamberMin[3] + half, v |-> Tenths(vel[3], -4)] ELSE [p |-> pos[3], v |-> vel[3]]
      z2 == IF z1.p + half > ChamberMax[3] THEN [p |-> ChamberMax[3] - half, v |-> Tenths(z1.v, -4)] ELSE z1
  IN [pos |-> <<x2.p, y2.p, z2.p>>, vel |-> <<x2.v, y2.v, z2.v>>]

\* friction factor max(0, 1 - mu * dt) with mu = 6, applied to x and z
Friction(vel, dt) ==
  LET f == Max(0, 1000 - 6 * dt)
  IN <<(vel[1] * f) \div 1000, vel[2], (vel[3] * f) \div 1000>>

RECURSIVE CubeObstacles(_, _, _, _, _)
CubeObstacles(obs, i, pos, vel, onTop) ==
  IF i > Len(obs) THEN [pos |-> pos, vel |-> vel, onTop |-> onTop]
  ELSE LET expanded == ExpandByScalar(obs[i], CubeHalf)
       IN IF ContainsPoint(expanded, pos)
          THEN LET o == PushOut(expanded, pos)
               IN CubeObstacles(obs, i + 1, o.pos, [vel EXCEPT ![o.axis] = Tenths(vel[o.axis], -3)],
                                onTop \/ (o.axis = 2 /\ o.dir > 0))
          ELSE CubeObstacles(obs, i + 1, pos, vel, onTop)

\* PhysicsCube.update(dt, chamberBounds, portals = seq, obstacles = obs)
CubeUpdate(P, k, seq, dt, obs) ==
  IF k.isGrabbed
  THEN [cube |-> k, portals |-> P, called |-> FALSE, trigger |-> "none", transforms |-> 0, hitPoint |-> k.position,
        exit |-> k.position, cooldown |-> k.portalCooldown, prev |-> k.position, next |-> k.position]
  ELSE Eval(Decay(k.portalCooldown, dt), LAMBDA cooldown :
       Eval([k.velocity EXCEPT ![2] = k.velocity[2] - GravityStep(dt)], LAMBDA vel :
       Eval(VAdd(k.position, <<OverDt(vel[1], dt), OverDt(vel[2], dt), OverDt(vel[3], dt)>>), LAMBDA next :
       Eval(CubePortalLoop(P, seq, 1, cooldown, k.position, next), LAMBDA loop :
       Eval(IF loop.trigger # "none"
            THEN Eval(TransformThrough(loop.portals, loop.trigger,
                                       [position |-> loop.hitPoint, quaternion |-> QIdentity, velocity |-> vel]),
                      LAMBDA out :
                   [pos |-> VAdd(out.position,
                                 VScale(PortalNormal(P, P[loop.trigger].linked), CubeHalf + CubeExitEpsilon)),
                    vel |-> out.velocity,
                    portals |-> UpdateWorldMatrix(loop.portals, P[loop.trigger].linked)])
            ELSE [pos |-> next, vel |-> vel, portals |-> loop.portals], LAMBDA through :
       Eval(CubeBounds(through.pos, through.vel), LAMBDA bounded :
       Eval(CubeObstacles(obs, 1, bounded.pos,
                          IF bounded.pos[2] - CubeHalf <= ChamberMin[2] THEN Friction(bounded.vel, dt) ELSE bounded.vel,
                          FALSE), LAMBDA o :
         [cube |-> [k EXCEPT !.position = o.pos,
                             !.velocity = IF o.onTop THEN Friction(o.vel, dt) ELSE o.vel,
                             !.portalCooldown = IF loop.trigger # "none" THEN CubeCooldown ELSE cooldown],
          portals |-> through.portals,
          called |-> TRUE, trigger |-> loop.trigger, transforms |-> loop.count,
          hitPoint |-> loop.hitPoint, exit |-> through.pos,
          cooldown |-> cooldown, prev |-> k.position, next |-> next])))))))

(***************************************************************************)
(* Level surfaces a portal can be placed on (LevelBuilder.buildChamber):   *)
(* one raycast hit on each of the six inner faces of the chamber           *)
(***************************************************************************)
CeilingFace == 9900

Hits ==
  [back    |-> [point |-> <<0, 1000, -HalfRoom>>, normal |-> <<0, 0, 1>>],
   front   |-> [point |-> <<0, 1000, HalfRoom>>, normal |-> <<0, 0, -1>>],
   left    |-> [point |-> <<-HalfRoom, 1000, 0>>, normal |-> <<1, 0, 0>>],
   right   |-> [point |-> <<HalfRoom, 1000, 0>>, normal |-> <<-1, 0, 0>>],
   floor   |-> [point |-> <<0, 0, 2000>>, normal |-> <<0, 1, 0>>],
   floorB  |-> [point |-> <<2000, 0, -2000>>, normal |-> <<0, 1, 0>>],
   ceiling |-> [point |-> <<0, CeilingFace, 2000>>, normal |-> <<0, -1, 0>>]]

HitNames == DOMAIN Hits

\* two portals constructed, linked and placed, world matrices up to date
PlacedPair(ha, hb) ==
  UpdateMatrixWorld(PlaceAt(PlaceAt(Link([a \in PortalNames |-> NewPortal], "blue"), "blue", Hits[ha]), "orange", Hits[hb]))

(***************************************************************************)
(* PortalPlacement.placePortal                                             *)
(***************************************************************************)
\* CONFIG.room.wallThickness
WallThickness == 200

\* CONFIG.portal.placementMargin
PlacementMargin == 700

\* a mesh the ray is cast against: the centre of its box, the half extents
\* of its bounding box, userData.portalable
Surface(center, halfSize, portalable) == [center |-> center, halfSize |-> halfSize, portalable |-> portalable]

\* the walls, floor, ceiling and second floor of LevelBuilder.buildChamber,
\* and a 5 x 5 x 0.2 wall of EditMode.createWall with the portalable box
\* unchecked, standing in the room in front of the back wall
LevelSurfaces ==
  [back        |-> Surface(<<0, HalfRoom, -HalfRoom - WallThickness \div 2>>,
                           <<HalfRoom, HalfRoom, WallThickness \div 2>>, TRUE),
   front       |-> Surface(<<0, HalfRoom, HalfRoom + WallThickness \div 2>>,
                           <<HalfRoom, HalfRoom, WallThickness \div 2>>, TRUE),
   left        |-> Surface(<<-HalfRoom - WallThickness \div 2, HalfRoom, 0>>,
                           <<WallThickness \div 2, HalfRoom, HalfRoom>>, TRUE),
   right       |-> Surface(<<HalfRoom + WallThickness \div 2, HalfRoom, 0>>,
                           <<WallThickness \div 2, HalfRoom, HalfRoom>>, TRUE),
   floor       |-> Surface(<<0, -(WallThickness \div 2), 0>>,
                           <<HalfRoom, WallThickness \div 2, HalfRoom>>, TRUE),
   ceiling     |-> Surface(<<0, RoomScale, 0>>,
                           <<HalfRoom, WallThickness \div 2, HalfRoom>>, TRUE),
   secondFloor |-> Surface(<<-(HalfRoom \div 2), HalfRoom, -(HalfRoom \div 2)>>,
                           <<HalfRoom \div 2, WallThickness \div 2, HalfRoom \div 2>>, TRUE),
   panel       |-> Surface(<<0, 2500, -2000>>, <<2500, 2500, 100>>, FALSE)]

\* the mesh each hit of Hits lies on
SurfaceOfHit == [back |-> "back", front |-> "front", left |-> "left", right |-> "right",
                 floor |-> "floor", floorB |-> "floor", ceiling |-> "ceiling"]

\* one entry of raycaster.intersectObjects: the object, the point and the
\* face normal in world space
Intersection(object, point, normal) == [object |-> object, point |-> point, normal |-> normal]

\* the intersections of a ray that ends on the hit h of Hits
RayAt(h) == <<Intersection(SurfaceOfHit[h], Hits[h].point, Hits[h].normal)>>

\* hit.point.clone().applyMatrix4(hit.object.matrixWorld inverted)
LocalPoint(surface, point) == ApplyMatrix4(point, M4Invert(Compose(surface.center, QIdentity)))

\* axes.reduce((minA, a) => halfSize[a] < halfSize[minA] ? a : minA, "x")
ThinAxis(halfSize) ==
  LET xy == IF halfSize[2] < halfSize[1] THEN 2 ELSE 1
  IN IF halfSize[3] < halfSize[xy] THEN 3 ELSE xy

\* axes.filter(a => a !== thinAxis)
ThickAxes(halfSize) == SelectSeq(<<1, 2, 3>>, LAMBDA a : a # ThinAxis(halfSize))

\* the first intersection on a portalable object, as
\* intersectObjects(...).filter(i => i.object.userData.portalable)[0] gives it
FirstPortalableHit(intersects) ==
  LET portalable == SelectSeq(intersects, LAMBDA i : LevelSurfaces[i.object].portalable)
  IN IF Len(portalable) > 0 THEN portalable[1] ELSE intersects[1]

\* const hit = intersects[0]
FirstHit(intersects) == intersects[1]

\* PortalPlacement.placePortal(raycaster, portal a) for a ray with the
\* intersections given, nearest first: the portals afterwards and the
\* value returned
PlacePortalAt(P, a, intersects) ==
  IF Len(intersects) = 0
  THEN [portals |-> P, placed |-> FALSE]
  ELSE LET hit == FirstHit(intersects)
           surface == LevelSurfaces[hit.object]
           localPoint == LocalPoint(surface, hit.point)
           halfSize == surface.halfSize
           thickAxes == ThickAxes(halfSize)
       IN IF ~surface.portalable
          THEN [portals |-> P, placed |-> FALSE]
          ELSE IF \/ Abs(localPoint[thickAxes[1]]) > halfSize[thickAxes[1]] - PlacementMargin
                  \/ Abs(localPoint[thickAxes[2]]) > halfSize[thickAxes[2]] - PlacementMargin
               THEN [portals |-> P, placed |-> FALSE]
               ELSE [portals |-> PlaceAt(P, a, hit), placed |-> TRUE]

(***************************************************************************)
(* State that is not part of the specification at hand stays at these      *)
(***************************************************************************)
IdleController == [portalCooldown |-> 0, orientationCorrection |-> NoCorrection]

IdleCube == [position |-> <<0, 2000, 0>>, velocity |-> <<0, 0, 0>>, portalCooldown |-> 0, isGrabbed |-> FALSE]

\* frame and placements count the inputs so far; playerClock and cubeClock
\* are the frame time accumulated since the body's last teleport, up to the
\* length of its cooldown
IdleGame == [frame |-> 0, placements |-> 0, levelCompleted |-> FALSE,
             playerClock |-> PlayerCooldown, cubeClock |-> CubeCooldown]

IdleRt == [stage |-> 0]

\* the objects around the frame loop, where a specification leaves them out
\* new EditMode(scene, camera, renderer)
NewEditMode ==
  [objects |-> <<>>, selectedObject |-> "null", selectedObjectType |-> "null", currentToolMode |-> "translate",
   transformControls |-> [object |-> "null", visible |-> FALSE, enabled |-> FALSE],
   selectionCircle |-> FALSE, isMouseLookActive |-> FALSE]

\* new InteractionSystem(scene, camera)
NewInteraction == [grabbedCube |-> "null", chargeActive |-> FALSE]

\* the page as it is loaded: the start menu is shown, the other panels
\* carry the class hidden and the back-to-menu button is not displayed
NewDom ==
  [hidden |-> [startMenu |-> FALSE, ui |-> TRUE, editUi |-> TRUE, levelComplete |-> TRUE, clickToPlay |-> TRUE],
   backToMenu |-> "none"]

\* the scene after initializeSubsystems: the objects of the level, the
\* default cube (hidden) and the editor's gizmo
NewSceneGraph ==
  [children |-> {"defaultCube", "goal", "secondFloor", "transformControls"},
   visible |-> [defaultCube |-> FALSE, goal |-> TRUE, secondFloor |-> TRUE]]

IdleSession ==
  /\ editMode = NewEditMode
  /\ interaction = NewInteraction
  /\ heap = <<>>
  /\ dom = NewDom
  /\ sceneGraph = NewSceneGraph
  /\ storage = <<>>
  /\ manager = [currentSlot |-> 1]

IdleGl == [passes |-> <<>>]

(***************************************************************************)
(* SpecMath: Portal.transformThrough and Portal.updateVirtualCamera as     *)
(* functions of a pose, over all pairs of placements                       *)
(***************************************************************************)
MathPositions == {<<0, 1000, -4950>>, <<300, 1600, 4000>>, <<-250, 500, 100>>, <<0, 1000, -5050>>}

MathQuaternions == {QIdentity,
                    SetFromUnitVectors(<<0, 0, 1>>, <<1, 0, 0>>),
                    SetFromUnitVectors(<<0, 0, 1>>, <<0, 1, 0>>)}

MathVelocities == {<<0, 0, 1000>>, <<0, -4000, 0>>, <<300, -400, 1200>>}

PoseOf(f) == [position |-> f.position, quaternion |-> f.quaternion, velocity |-> f.velocity]

\* the hits of placeAt that put portal a at (0, 1, -5) facing +Z and the
\* portal linked to it at (0, 1, 5) facing -Z, world matrices up to date
WallPair(a) ==
  UpdateMatrixWorld(
    PlaceAt(PlaceAt(Link([p \in PortalNames |-> NewPortal], "blue"),
                    a, [point |-> <<0, 1000, -HalfRoom - PlacementOffset>>, normal |-> <<0, 0, 1>>]),
            Other(a), [point |-> <<0, 1000, HalfRoom + PlacementOffset>>, normal |-> <<0, 0, -1>>]))

InitMath ==
  /\ \/ \E ha \in HitNames, hb \in HitNames : portals = PlacedPair(ha, hb)
     \/ \E a \in PortalNames : portals = WallPair(a)
  /\ \E p \in MathPositions, q \in MathQuaternions, v \in MathVelocities :
       fps = [position |-> p, quaternion |-> q, velocity |-> v, enabled |-> TRUE, canJump |-> TRUE,
              moveFwd |-> FALSE, moveBack |-> FALSE]
  /\ rt = IdleRt
  /\ controller = IdleController
  /\ IdleSession
  /\ cube = IdleCube
  /\ game = IdleGame
  /\ last = [op |-> "none"]
  /\ gl = IdleGl

\* a.transformThrough(pose) and a.updateVirtualCamera(camera at pose)
MathEnter ==
  /\ rt.stage = 0
  /\ \E a \in PortalNames :
       LET out == TransformThrough(portals, a, PoseOf(fps))
       IN /\ rt' = [stage |-> 1, entry |-> a, pose |-> PoseOf(fps), out |-> out,
                    virtualCam |-> UpdateVirtualCamera(portals, a, PoseOf(fps), NewVirtualCam)]
          /\ fps' = [fps EXCEPT !.position = out.position, !.quaternion = out.quaternion, !.velocity = out.velocity]
  /\ UNCHANGED <<portals, controller, cube, game, last, gl, session>>

\* the linked portal's transformThrough applied to the result
MathReturn ==
  /\ rt.stage = 1
  /\ LET back == TransformThrough(portals, portals[rt.entry].linked, PoseOf(fps))
     IN /\ rt' = [rt EXCEPT !.stage = 2]
        /\ fps' = [fps EXCEPT !.position = back.position, !.quaternion = back.quaternion, !.velocity = back.velocity]
  /\ UNCHANGED <<portals, controller, cube, game, last, gl, session>>

NextMath == MathEnter \/ MathReturn

SpecMath == InitMath /\ [][NextMath]_vars

SameClass(P) == IsHorizontal(PortalNormal(P, "blue")) = IsHorizontal(PortalNormal(P, "orange"))

\* C1: carrying a pose through a portal and back through the linked portal
\* restores the pose's position and orientation, for every pair of placements.
C1_RoundTripIdentity ==
  rt.stage = 2 => (fps.position = rt.pose.position /\ fps.quaternion = rt.pose.quaternion)

\* C2: the velocity returned by transformThrough has the same squared length
\* as the velocity passed in.
C2_VelocityMagnitude ==
  rt.stage >= 1 => LenSq(rt.out.velocity) = LenSq(rt.pose.velocity)

\* a velocity turned by a pair of one wall and one floor or ceiling portal
C2_Witness ==
  /\ rt.stage = 1
  /\ rt.out.velocity # rt.pose.velocity
  /\ ~SameClass(portals)

\* C8: the virtual camera of a viewer at pose P sits at transformThrough(P).position
\* with transformThrough(P)'s rotation.
C8_CameraAgreesWithTraversal ==
  rt.stage >= 1 => (rt.virtualCam.position = rt.out.position
                    /\ rt.virtualCam.quaternion = rt.out.quaternion)

\* a viewer carried to a floor or ceiling exit, where the flip axis is local X
C8_Witness ==
  /\ rt.stage = 1
  /\ IsHorizontal(PortalNormal(portals, portals[rt.entry].linked))
  /\ rt.out.position # rt.pose.position

\* the round trip restores the pose when both portals are on walls, or both
\* on floor or ceiling
RoundTripSameClass ==
  (rt.stage = 2 /\ SameClass(portals)) => (fps.position = rt.pose.position /\ fps.quaternion = rt.pose.quaternion)

\* the wall-traversal scenario: the entry portal at (0, 1, -5) facing +Z, its
\* linked portal at (0, 1, 5) facing -Z, and a body at (0, 1, -5.05) with
\* velocity (0, 0, 1) has been carried through the entry portal
WallTraversal ==
  /\ rt.stage = 1
  /\ portals[rt.entry].position = <<0, 1000, -5000>>
  /\ PortalNormal(portals, rt.entry) = <<0, 0, 1>>
  /\ portals[portals[rt.entry].linked].position = <<0, 1000, 5000>>
  /\ PortalNormal(portals, portals[rt.entry].linked) = <<0, 0, -1>>
  /\ rt.pose.position = <<0, 1000, -5050>>
  /\ rt.pose.velocity = <<0, 0, 1000>>

\* C21 as stated: in the wall-traversal scenario the body comes out at
\* (0, 1, 5.05) with velocity (0, 0, 1).
C21_WallTraversalBehindExit ==
  WallTraversal => (rt.out.position = <<0, 1000, 5050>> /\ rt.out.velocity = <<0, 0, 1000>>)

\* C21: in the wall-traversal scenario the body comes out at (0, 1, 4.95),
\* as far in front of the exit portal as it was behind the entry portal, with
\* velocity (0, 0, 1).
C21_WallTraversal ==
  WallTraversal => (rt.out.position = <<0, 1000, 4950>> /\ rt.out.velocity = <<0, 0, 1000>>)

\* the scenario has run, for a body that looks along -Z
C21_Witness ==
  /\ WallTraversal
  /\ rt.pose.quaternion = QIdentity

(***************************************************************************)
(* Spec: the play-mode frame loop (PortalGame.animate) with the input      *)
(* events that place portals and press keys                                *)
(***************************************************************************)
MaxFrames == 4

MaxPlacements == 2

\* frame intervals up to CONFIG.animation.maxDeltaTime
FrameTimes == {20, MaxDeltaTime}

\* the surfaces the crosshair is on when each portal is fired
AimedHits == [blue |-> {"back", "floor", "ceiling"}, orange |-> {"back", "floor", "floorB"}]

\* where the player and the cube are when the portals come into play
Scenarios ==
  { [pos |-> <<800, 1000, -4400>>, vel |-> <<0, 0, 0>>, enabled |-> TRUE, walking |-> TRUE,
     cubePos |-> <<300, 400, 2000>>, cubeVel |-> <<0, -2000, 0>>, grabbed |-> FALSE],
    [pos |-> <<-400, 1000, 2675>>, vel |-> <<0, 0, 0>>, enabled |-> TRUE, walking |-> TRUE,
     cubePos |-> <<650, 400, 2000>>, cubeVel |-> <<0, -2000, 0>>, grabbed |-> FALSE],
    [pos |-> <<700, 1100, 2000>>, vel |-> <<0, -2000, 0>>, enabled |-> TRUE, walking |-> FALSE,
     cubePos |-> <<0, 1000, -4500>>, cubeVel |-> <<0, 0, -6000>>, grabbed |-> FALSE],
    [pos |-> <<700, 9000, 2000>>, vel |-> <<0, 3000, 0>>, enabled |-> TRUE, walking |-> FALSE,
     cubePos |-> <<0, 2000, 0>>, cubeVel |-> <<0, 0, 0>>, grabbed |-> TRUE],
    [pos |-> <<0, 9000, 2000>>, vel |-> <<0, 1100, 0>>, enabled |-> TRUE, walking |-> FALSE,
     cubePos |-> <<0, 2000, 0>>, cubeVel |-> <<0, 0, 0>>, grabbed |-> FALSE],
    [pos |-> <<0, 1000, 4000>>, vel |-> <<0, 0, 0>>, enabled |-> FALSE, walking |-> FALSE,
     cubePos |-> <<2000, 300, -2000>>, cubeVel |-> <<0, -3000, 0>>, grabbed |-> FALSE],
    [pos |-> <<300, 1000, 2000>>, vel |-> <<0, 0, 0>>, enabled |-> TRUE, walking |-> FALSE,
     cubePos |-> <<300, 1000, 1000>>, cubeVel |-> <<0, 0, 0>>, grabbed |-> TRUE] }

\* what the last frame did: the time t - lastT it came after and how much of
\* that was a pause, the calls made, the values they tested with, where the
\* cube was before the chamber-bounds step and the accumulated frame time
\* since each body's previous teleport
NoTick == [op |-> "none", dt |-> 0, interval |-> 0, pause |-> 0, settled |-> FALSE,
           playerCalled |-> FALSE, playerTrigger |-> "none", playerTransforms |-> 0,
           playerArmed |-> FALSE, playerOutQuat |-> QIdentity,
           playerPos |-> <<0, 0, 0>>, playerPrev |-> <<0, 0, 0>>, playerVel |-> <<0, 0, 0>>,
           playerCooldown |-> 0, playerClock |-> 0,
           cubeCalled |-> FALSE, cubeTrigger |-> "none", cubeTransforms |-> 0, cubeHit |-> <<0, 0, 0>>,
           cubeExit |-> <<0, 0, 0>>,
           cubePrev |-> <<0, 0, 0>>, cubeNext |-> <<0, 0, 0>>, cubeCooldown |-> 0, cubeClock |-> 0]

Init ==
  /\ portals = [a \in PortalNames |-> NewPortal]
  /\ \E s \in Scenarios :
       /\ fps = [position |-> s.pos, quaternion |-> QIdentity, velocity |-> s.vel, enabled |-> s.enabled,
                 canJump |-> FALSE, moveFwd |-> s.walking, moveBack |-> FALSE]
       /\ cube = [position |-> s.cubePos, velocity |-> s.cubeVel, portalCooldown |-> 0, isGrabbed |-> s.grabbed]
  /\ controller = IdleController
  /\ IdleSession
  /\ game = IdleGame
  /\ last = NoTick
  /\ rt = IdleRt
  /\ gl = IdleGl

\* PortalGame.setupPortals: bluePortal.link(orangePortal)
LinkPortals ==
  /\ portals["blue"].linked = "none"
  /\ portals' = Link(portals, "blue")
  /\ last' = NoTick
  /\ UNCHANGED <<fps, controller, cube, game, rt, gl, session>>

\* PortalPlacement.placePortal(raycaster, portal a) with the crosshair on
\* one of the aimed surfaces
PlacePortal ==
  /\ game.placements < MaxPlacements
  /\ \E a \in PortalNames : \E h \in AimedHits[a] : portals' = PlacePortalAt(portals, a, RayAt(h)).portals
  /\ game' = [game EXCEPT !.placements = @ + 1]
  /\ last' = NoTick
  /\ UNCHANGED <<fps, controller, cube, rt, gl, session>>

\* the "unlock" listener of FPSController: the pointer lock is released,
\* here by a player who has gone through a portal on the last frame
Unlock ==
  /\ fps.enabled
  /\ last.playerTrigger # "none"
  /\ fps' = [fps EXCEPT !.enabled = FALSE]
  /\ last' = NoTick
  /\ UNCHANGED <<portals, controller, cube, game, rt, gl, session>>

\* InteractionSystem.tryGrab(raycaster) on cube k with the crosshair on it:
\* the hit distance is that from the camera to the cube
TryGrab(k, f) ==
  IF ~k.isGrabbed /\ LenSq(VSub(k.position, f.position)) <= GrabCheckDistance * GrabCheckDistance
  THEN [k EXCEPT !.isGrabbed = TRUE,
                 !.velocity = <<0, 0, 0>>,
                 !.position = VAdd(f.position, VScale(ApplyQuaternion(<<0, 0, -1>>, f.quaternion), GrabDistance))]
  ELSE k

\* the grab key with nothing held: InteractionSystem.toggleGrabThrow(raycaster,
\* fps.enabled, isMobile) on a desktop
ToggleGrabThrow ==
  /\ ~cube.isGrabbed
  /\ fps.enabled
  /\ cube' = TryGrab(cube, fps)
  /\ cube' # cube
  /\ last' = NoTick
  /\ UNCHANGED <<portals, fps, controller, game, rt, gl, session>>

\* InteractionSystem.updateGrabbedCube: the held cube follows the camera
UpdateGrabbedCube(k, f) ==
  IF ~k.isGrabbed THEN k
  ELSE LET target == VAdd(f.position, VScale(ApplyQuaternion(<<0, 0, -1>>, f.quaternion), GrabDistance))
       IN [k EXCEPT !.position = [i \in 1..3 |-> k.position[i] + (target[i] - k.position[i]) \div 2]]

\* PortalGame.checkGoalCompletion
CheckGoalCompletion(g, f) ==
  IF ~g.levelCompleted /\ LenSq(VSub(f.position, GoalPosition)) < GoalTriggerDistance * GoalTriggerDistance
  THEN [game |-> [g EXCEPT !.levelCompleted = TRUE], fps |-> [f EXCEPT !.enabled = FALSE]]
  ELSE [game |-> g, fps |-> f]

\* dt = Math.min((t - this.lastT) / 1000, CONFIG.animation.maxDeltaTime)
FrameDt(interval) == Min(interval, MaxDeltaTime)

\* one play-mode frame, animate(t) with t - lastT = interval ms:
\* updatePhysics(dt) with the portal array seq, checkGoalCompletion, render
\* (which refreshes every world matrix)
Frame(P, c, f, k, g, seq, interval, settled) ==
  Eval(FrameDt(interval), LAMBDA dt :
  Eval(FpsUpdate(P, Elapse(c, interval), f, seq, dt, LevelObstacles), LAMBDA player :
  Eval(RecoverOrientation(player.controller, player.fps, settled), LAMBDA rec :
  Eval(CubeUpdate(player.portals, UpdateGrabbedCube(k, rec.fps), seq, dt, LevelObstacles), LAMBDA body :
  Eval(CheckGoalCompletion(g, rec.fps), LAMBDA goal :
    [portals |-> UpdateMatrixWorld(body.portals),
     fps |-> goal.fps,
     controller |-> rec.controller,
     cube |-> body.cube,
     game |-> [goal.game EXCEPT !.frame = @ + 1,
                                !.playerClock = IF player.trigger # "none" THEN 0 ELSE Min(PlayerCooldown, @ + dt),
                                !.cubeClock = IF body.trigger # "none" THEN 0 ELSE Min(CubeCooldown, @ + dt)],
     last |-> [op |-> "tick", dt |-> dt, interval |-> interval, pause |-> 0, settled |-> settled,
               playerCalled |-> player.called, playerTrigger |-> player.trigger,
               playerArmed |-> player.armed, playerOutQuat |-> player.outQuat,
               playerTransforms |-> player.transforms, playerPos |-> player.pos, playerPrev |-> player.prev,
               playerVel |-> player.vel, playerCooldown |-> player.cooldown,
               playerClock |-> Min(PlayerCooldown, g.playerClock + dt),
               cubeCalled |-> body.called, cubeTrigger |-> body.trigger,
               cubeTransforms |-> body.transforms, cubeHit |-> body.hitPoint,
               cubeExit |-> body.exit,
               cubePrev |-> body.prev, cubeNext |-> body.next, cubeCooldown |-> body.cooldown,
               cubeClock |-> Min(CubeCooldown, g.cubeClock + dt)]])))))

\* whether the roll damping can have finished by this frame: only the
\* damping of a rolled camera can
Settles(c, f) == IF Rolled(f.quaternion) THEN BOOLEAN ELSE {FALSE}

\* wall-clock times for which the browser holds back the animation frames
\* (the page is hidden): performance.now() goes on and no frame runs
Pauses == {600}

\* t - lastT of a frame and the part of it that was a pause: the frame
\* follows the last one at once, or a pause lies between them
FrameInputs == (FrameTimes \X {0}) \cup {<<MaxDeltaTime + w, w>> : w \in Pauses}

\* PortalGame.animate in play mode
Tick ==
  /\ game.frame < MaxFrames
  /\ \E in \in FrameInputs, settled \in Settles(controller, fps) :
       \E n \in {Frame(portals, controller, fps, cube, game, PortalOrder, in[1], settled)} :
          /\ portals' = n.portals
          /\ fps' = n.fps
          /\ controller' = n.controller
          /\ cube' = n.cube
          /\ game' = n.game
          /\ last' = [n.last EXCEPT !.pause = in[2]]
  /\ UNCHANGED <<rt, gl, session>>

Next == LinkPortals \/ PlacePortal \/ Unlock \/ ToggleGrabThrow \/ Tick

Spec == Init /\ [][Next]_vars

(***************************************************************************)
(* Properties of the frame loop                                            *)
(***************************************************************************)
\* p is unplaced, unlinked, or linked to an unplaced portal
Missing(P, p) == ~P[p].isPlaced \/ P[p].linked = "none" \/ ~P[P[p].linked].isPlaced

\* the last call of resolvePlayerCollision met the distance test and the
\* trigger policy of p
PlayerEligible(p) ==
  /\ PlayerInRange(portals, p, last.playerPos)
  /\ PlayerShouldTrigger(portals, p, last.playerPos, last.playerPrev, last.playerVel)

\* the last call of PhysicsCube.update swept the cube through the disc of p
CubeEligible(p) == CubeCrossing(portals, p, last.cubePrev, last.cubeNext).hit

\* squared distance from the centre of p to the projection of point onto its plane
CrossingOffsetSq(p, point) ==
  LenSq(PlanarOffset(VSub(point, portals[p].position), PortalNormal(portals, p)))

IsCeilingPortal(p) == IsHorizontal(PortalNormal(portals, p)) /\ PortalNormal(portals, p)[2] < 0

\* C3: a call made while the body's cooldown, after the decrement by dt, is
\* above 0 sends the body through no portal, and a body goes through a portal
\* again only when the frame time accumulated since its last teleport has
\* reached the cooldown (0.2 s player, 0.15 s cube)
C3_CooldownEnforcement ==
  last.op = "tick" =>
    /\ (last.playerCalled /\ last.playerCooldown > 0) => last.playerTrigger = "none"
    /\ (last.cubeCalled /\ last.cubeCooldown > 0) => last.cubeTrigger = "none"
    /\ last.playerTrigger # "none" => last.playerClock >= PlayerCooldown
    /\ last.cubeTrigger # "none" => last.cubeClock >= CubeCooldown

\* the player is in range of a live portal and its policy says trigger, while
\* the cooldown is still running: the call leaves the player where it is
C3_Witness ==
  /\ last.op = "tick" /\ last.playerCalled /\ last.playerCooldown > 0
  /\ \E p \in PortalNames : ~Missing(portals, p) /\ PlayerEligible(p)
  /\ last.playerTrigger = "none"

\* the portal array without p
Without(p) == SelectSeq(PortalOrder, LAMBDA q : q # p)

\* C4: in every frame, a portal that is unplaced, unlinked or linked to an
\* unplaced portal is gone through by neither body, and the player, the
\* controller and the cube end the frame as they would with that portal
\* taken out of the portal array
C4_MissingLinkNoOp ==
  [][(last'.op = "tick" /\ game'.frame = game.frame + 1) =>
       \A p \in PortalNames :
         Missing(portals, p) =>
           \A n \in {Frame(portals, controller, fps, cube, game, Without(p), last'.interval, last'.settled)} :
              /\ last'.playerTrigger # p
              /\ last'.cubeTrigger # p
              /\ fps' = n.fps
              /\ controller' = n.controller
              /\ cube' = n.cube]_vars

\* the player walks into a placed portal whose link is missing or unplaced
\* and stays on its side
C4_Witness ==
  /\ last.op = "tick" /\ last.playerCalled /\ last.playerCooldown = 0
  /\ \E p \in PortalNames : Missing(portals, p) /\ portals[p].isPlaced /\ PlayerEligible(p)
  /\ last.playerTrigger = "none"

\* C5: no body goes through a portal on a frame where its crossing point,
\* projected onto the portal plane, is farther than 1.15 x radius from the
\* portal centre
C5_ApertureRejection ==
  last.op = "tick" =>
    /\ last.playerTrigger # "none" =>
         CrossingOffsetSq(last.playerTrigger, last.playerPos) <= FloorAperture * FloorAperture
    /\ last.cubeTrigger # "none" =>
         CrossingOffsetSq(last.cubeTrigger, last.cubeHit) <= FloorAperture * FloorAperture

\* C6: with a live ceiling portal and no cooldown, a player whose vertical
\* velocity is at most the threshold does not go through it, and a player in
\* range whose vertical velocity is above the threshold and points into the
\* portal does
C6_CeilingAsymmetry ==
  (last.op = "tick" /\ last.playerCalled /\ last.playerCooldown = 0) =>
    \A p \in PortalNames :
      (~Missing(portals, p) /\ IsCeilingPortal(p)) =>
        /\ last.playerVel[2] <= CeilingVelocityThreshold => last.playerTrigger # p
        /\ (/\ PlayerInRange(portals, p, last.playerPos)
            /\ last.playerVel[2] > CeilingVelocityThreshold
            /\ Dot(last.playerVel, PortalNormal(portals, p)) < 0) => last.playerTrigger = p

\* C7: a call sends its body through at most one portal, and through orange
\* only if blue, tested first, did not trigger
C7_OneTraversalPerCall ==
  last.op = "tick" =>
    /\ last.playerTransforms = (IF last.playerTrigger = "none" THEN 0 ELSE 1)
    /\ last.cubeTransforms = (IF last.cubeTrigger = "none" THEN 0 ELSE 1)
    /\ last.playerTrigger = "orange" => ~(~Missing(portals, "blue") /\ PlayerEligible("blue"))
    /\ last.cubeTrigger = "orange" => ~(~Missing(portals, "blue") /\ CubeEligible("blue"))

\* both portals would take the player in this call; blue does and orange is
\* not tested
C7_Witness ==
  /\ last.op = "tick" /\ last.playerTrigger = "blue" /\ last.playerTransforms = 1
  /\ ~Missing(portals, "orange") /\ PlayerEligible("orange")

C15_HeldCube ==
  /\ last.op = "tick" /\ ~last.cubeCalled /\ cube.isGrabbed
  /\ cube.portalCooldown > 0

\* C16: on a frame that follows a pause, a time without frames, the
\* orientation correction and the cooldowns of the player and the cube end
\* as they would had the pause been of zero length
C16_TickDriven ==
  [][(last'.op = "tick" /\ last'.pause > 0) =>
       \A n \in {Frame(portals, controller, fps, cube, game, PortalOrder,
                       last'.interval - last'.pause, last'.settled)} :
          /\ controller'.orientationCorrection = n.controller.orientationCorrection
          /\ controller'.portalCooldown = n.controller.portalCooldown
          /\ cube'.portalCooldown = n.cube.portalCooldown]_vars

\* C17: a traversal of the player arms orientationCorrection exactly when
\* the exit portal is on a floor or ceiling (|normal.y| > 0.7) and the up
\* vector of the player after the transform has negative y; a frame without
\* a traversal arms none
C17_ArmedWhenNeeded ==
  last.op = "tick" =>
    IF last.playerTrigger = "none"
    THEN ~last.playerArmed
    ELSE LET exitNormal == PortalNormal(portals, portals[last.playerTrigger].linked)
             up == ApplyQuaternion(<<0, 1, 0>>, last.playerOutQuat)
         IN /\ last.playerArmed <=> (10 * Abs(exitNormal[2]) > 7 /\ up[2] < 0)
            /\ last.playerArmed =>
                 controller.orientationCorrection =
                   [armed |-> TRUE, startQuat |-> last.playerOutQuat, elapsed |-> 0]

\* the player has come out of a floor portal head down and a correction is
\* armed
C17_Witness ==
  /\ last.op = "tick" /\ last.playerTrigger # "none" /\ last.playerArmed
  /\ controller.orientationCorrection.armed

\* the player has come out of a floor or ceiling portal upright, and out of
\* a wall portal, and no correction is armed
C17_NotArmed ==
  /\ last.op = "tick" /\ last.playerTrigger # "none" /\ ~last.playerArmed
  /\ IsHorizontal(PortalNormal(portals, portals[last.playerTrigger].linked))

IsFloorPortal(p) == IsHorizontal(PortalNormal(portals, p)) /\ PortalNormal(portals, p)[2] > 0

\* the player of the last call is grounded with the foot inside the aperture of p
GroundedInside(p) ==
  /\ last.playerPos[2] <= GroundedThreshold
  /\ CrossingOffsetSq(p, <<last.playerPos[1], PlayerMinHeight, last.playerPos[3]>>) <= FloorAperture * FloorAperture

\* the portals tested before p in the call did not take the player
FirstToTrigger(p) == p = "orange" => last.playerTrigger # "blue"

\* C18: with a live floor portal and no cooldown, a grounded player whose
\* foot is inside the aperture goes through it on that frame whatever the
\* direction of its movement, standing still included, and a player that is
\* not grounded inside the aperture goes through it only if moveDir . normal
\* is below -0.1
C18_FloorPolicy ==
  (last.op = "tick" /\ last.playerCalled /\ last.playerCooldown = 0) =>
    \A p \in PortalNames :
      (~Missing(portals, p) /\ IsFloorPortal(p)) =>
        /\ (GroundedInside(p) /\ FirstToTrigger(p)) => last.playerTrigger = p
        /\ (last.playerTrigger = p /\ ~GroundedInside(p)) =>
             DotBelow(VSub(last.playerPos, last.playerPrev), PortalNormal(portals, p), 1, 10)

\* C18 for a player that has moved on the frame: at least 0.001^(1/2) m
C18_FloorPolicyMoving ==
  (last.op = "tick" /\ last.playerCalled /\ last.playerCooldown = 0
   /\ LenSq(VSub(last.playerPos, last.playerPrev)) >= MinMoveLenSq) =>
    \A p \in PortalNames :
      (~Missing(portals, p) /\ IsFloorPortal(p)) =>
        /\ (GroundedInside(p) /\ FirstToTrigger(p) /\ PlayerInRange(portals, p, last.playerPos))
             => last.playerTrigger = p
        /\ (last.playerTrigger = p /\ ~GroundedInside(p)) =>
             DotBelow(VSub(last.playerPos, last.playerPrev), PortalNormal(portals, p), 1, 10)

\* the fields of p that placeAt and link set are the same after the step
Kept(p) ==
  /\ portals'[p].position = portals[p].position
  /\ portals'[p].quaternion = portals[p].quaternion
  /\ portals'[p].radius = portals[p].radius
  /\ portals'[p].isPlaced = portals[p].isPlaced
  /\ portals'[p].linked = portals[p].linked

\* C20: a frame, with its calls of resolvePlayerCollision, PhysicsCube.update
\* and transformThrough, leaves the position, orientation, radius, isPlaced
\* and linked of every portal as they were; a step that changes one of them
\* is a placement (placeAt) or the linking (link)
C20_TraversalKeepsPortals ==
  [][/\ last'.op = "tick" => \A p \in PortalNames : Kept(p)
     /\ (\E p \in PortalNames : ~Kept(p)) =>
          \/ game'.placements = game.placements + 1 /\ portals'[CHOOSE p \in PortalNames : ~Kept(p)].isPlaced
          \/ portals["blue"].linked = "none" /\ portals'["blue"].linked = "orange"]_vars

\* the player and the cube have both gone through a portal on one frame
C20_Witness ==
  /\ last.op = "tick" /\ last.playerTrigger # "none" /\ last.cubeTrigger # "none"
  /\ \A p \in PortalNames : portals[p].isPlaced /\ portals[p].linked = Other(p) /\ portals[p].radius = PortalRadius

\* the signed distance of the cube's centre from the plane of the exit
\* portal, right after the teleport of the last frame
CubeExitDistance ==
  Dot(PortalNormal(portals, portals[last.cubeTrigger].linked),
      VSub(last.cubeExit, portals[portals[last.cubeTrigger].linked].position))

\* C22: right after the cube is teleported in PhysicsCube.update, before the
\* chamber-bounds step, its centre is in front of the exit portal's plane by
\* at least half the cube size plus the epsilon.
C22_CubeExitClearance ==
  (last.op = "tick" /\ last.cubeTrigger # "none") => CubeExitDistance >= CubeHalf + CubeExitEpsilon

\* after a crossing from the front the centre is the epsilon in front of the
\* exit plane
C22_FrontCrossingExit ==
  (last.op = "tick" /\ last.cubeTrigger # "none"
     /\ Dot(PortalNormal(portals, last.cubeTrigger), VSub(last.cubePrev, portals[last.cubeTrigger].position)) > 0)
  => CubeExitDistance = CubeExitEpsilon

(***************************************************************************)
(* SpecRender: PortalGame.render and PortalRenderer.renderPortals, with    *)
(* the portals linked and placed between frames                            *)
(***************************************************************************)
\* the flags render and renderPortals read from debugSteps
StepNames == {"stepA", "stepB", "step0", "step1", "step2", "step3", "step4", "step5", "step6"}

\* a normal play frame: the stencil test is off and every pipeline step is on
NormalSteps == [s \in StepNames |-> s \notin {"stepA", "stepB"}]

\* the normal setting and the settings with one checkbox toggled
DebugSettings == {NormalSteps} \cup {[NormalSteps EXCEPT ![s] = ~@] : s \in StepNames}

\* the stencil ids renderPortals passes to renderPortal
StencilRefs == [blue |-> 1, orange |-> 2]

\* the stencil properties of a new THREE.Material
NewMaterial == [stencilWrite |-> FALSE, stencilFunc |-> "always", stencilRef |-> 0, stencilZPass |-> "keep"]

\* the material of the test quad of createTestObjects
QuadMaterial == [stencilWrite |-> TRUE, stencilFunc |-> "always", stencilRef |-> 1, stencilZPass |-> "replace"]

\* the material of the test sphere of createTestObjects
SphereMaterial == [stencilWrite |-> TRUE, stencilFunc |-> "equal", stencilRef |-> 1, stencilZPass |-> "keep"]

\* the material of Portal.createMaskMesh
NewMaskMaterial ==
  [stencilWrite |-> FALSE, stencilFunc |-> "always", stencilRef |-> 0, stencilZPass |-> "keep",
   depthTest |-> FALSE, depthWrite |-> TRUE, depthFunc |-> "lequal"]

\* a mesh of the scene: its material or material array, its visible flag,
\* its layer, and the portal group it is a child of
Mesh(mats, visible, layer, owner) == [materials |-> mats, visible |-> visible, layer |-> layer, portal |-> owner]

\* the border rings of the two portals, children of the portal groups
PortalMeshes == <<Mesh(<<"blueBorder">>, TRUE, 0, "blue"), Mesh(<<"orangeBorder">>, TRUE, 0, "orange")>>

\* the materials of a scene, by name
MaterialsOf(names) ==
  [m \in names \cup {"blueBorder", "orangeBorder"} |->
     IF m = "quad" THEN QuadMaterial ELSE IF m = "sphere" THEN SphereMaterial ELSE NewMaterial]

\* scene shapes: one material per mesh; one material shared by several
\* meshes and a transparent mesh on layer 1; material arrays and the hidden
\* test objects; arrays that repeat a shared material
Scenes ==
  [plain  |-> [meshes |-> <<Mesh(<<"wall">>, TRUE, 0, "none"), Mesh(<<"floor">>, TRUE, 0, "none")>> \o PortalMeshes,
               materials |-> MaterialsOf({"wall", "floor"})],
   shared |-> [meshes |-> <<Mesh(<<"wall">>, TRUE, 0, "none"), Mesh(<<"wall">>, TRUE, 0, "none"),
                            Mesh(<<"glass">>, TRUE, 1, "none")>> \o PortalMeshes,
               materials |-> MaterialsOf({"wall", "glass"})],
   arrays |-> [meshes |-> <<Mesh(<<"wall", "floor">>, TRUE, 0, "none"), Mesh(<<"floor">>, TRUE, 0, "none"),
                            Mesh(<<"quad">>, FALSE, 0, "none"), Mesh(<<"sphere">>, FALSE, 0, "none")>> \o PortalMeshes,
               materials |-> MaterialsOf({"wall", "floor", "quad", "sphere"})],
   mixed  |-> [meshes |-> <<Mesh(<<"wall", "wall", "sphere">>, TRUE, 0, "none"), Mesh(<<"sphere">>, FALSE, 0, "none"),
                            Mesh(<<"wall">>, TRUE, 1, "none")>> \o PortalMeshes,
               materials |-> MaterialsOf({"wall", "sphere"})]]

SceneNames == DOMAIN Scenes

\* the three properties applyStencilTest saves and restoreMaterials restores
StencilProps(mat) == [stencilWrite |-> mat.stencilWrite, stencilFunc |-> mat.stencilFunc, stencilRef |-> mat.stencilRef]

\* applyStencilTest without the material map: every object saves the values
\* its materials have when the traversal reaches it
RECURSIVE ApplyToMaterialsPerObject(_, _, _, _)
ApplyToMaterialsPerObject(mats, j, stencilRef, st) ==
  IF j > Len(mats)
  THEN st
  ELSE ApplyToMaterialsPerObject(mats, j + 1, stencilRef,
         [st EXCEPT !.originals = Append(@, StencilProps(st.materials[mats[j]])),
                    !.materials[mats[j]] = [@ EXCEPT !.stencilWrite = TRUE, !.stencilFunc = "equal",
                                                     !.stencilRef = stencilRef]])

\* materials.forEach of applyStencilTest, from material j of one object:
\* st.seen and st.saved are materialMap, st.originals the object's originals
RECURSIVE ApplyToMaterials(_, _, _, _)
ApplyToMaterials(mats, j, stencilRef, st) ==
  IF j > Len(mats)
  THEN st
  ELSE LET mat == mats[j]
           saved == IF mat \in st.seen THEN st.saved ELSE [st.saved EXCEPT ![mat] = StencilProps(st.materials[mat])]
       IN ApplyToMaterials(mats, j + 1, stencilRef,
            [materials |-> [st.materials EXCEPT ![mat] = [@ EXCEPT !.stencilWrite = TRUE, !.stencilFunc = "equal",
                                                                   !.stencilRef = stencilRef]],
             seen |-> st.seen \cup {mat},
             saved |-> saved,
             originals |-> Append(st.originals, saved[mat])])

\* scene.traverse of applyStencilTest, from mesh i
RECURSIVE ApplyStencilTraverse(_, _, _, _)
ApplyStencilTraverse(meshes, i, stencilRef, st) ==
  IF i > Len(meshes)
  THEN st
  ELSE Eval(ApplyToMaterials(meshes[i].materials, 1, stencilRef,
                             [materials |-> st.materials, seen |-> st.seen, saved |-> st.saved, originals |-> <<>>]),
            LAMBDA r :
         ApplyStencilTraverse(meshes, i + 1, stencilRef,
           [materials |-> r.materials, seen |-> r.seen, saved |-> r.saved,
            originalMaterials |-> Append(st.originalMaterials, r.originals)]))

\* PortalRenderer.applyStencilTest(scene, stencilRef, originalMaterials):
\* the materials afterwards and the filled originalMaterials, by mesh
ApplyStencilTest(meshes, materials, stencilRef) ==
  Eval(ApplyStencilTraverse(meshes, 1, stencilRef,
                            [materials |-> materials, seen |-> {},
                             saved |-> [m \in DOMAIN materials |-> StencilProps(materials[m])],
                             originalMaterials |-> <<>>]),
       LAMBDA r : [materials |-> r.materials, originalMaterials |-> r.originalMaterials])

\* materials.forEach of restoreMaterials, from material j of one object
RECURSIVE RestoreObject(_, _, _, _)
RestoreObject(mats, j, originals, materials) ==
  IF j > Len(mats)
  THEN materials
  ELSE RestoreObject(mats, j + 1, originals,
         [materials EXCEPT ![mats[j]] = [@ EXCEPT !.stencilWrite = originals[j].stencilWrite,
                                                  !.stencilFunc = originals[j].stencilFunc,
                                                  !.stencilRef = originals[j].stencilRef]])

\* PortalRenderer.restoreMaterials(scene, originalMaterials), from mesh i
RECURSIVE RestoreMaterials(_, _, _, _)
RestoreMaterials(meshes, i, originalMaterials, materials) ==
  IF i > Len(meshes)
  THEN materials
  ELSE Eval(RestoreObject(meshes[i].materials, 1, originalMaterials[i], materials), LAMBDA restored :
         RestoreMaterials(meshes, i + 1, originalMaterials, restored))

\* the pixels of the screen and the depth values of the fragments: the
\* scene through a portal, the portal surfaces, the chamber, the cleared depth
Pixels == {1, 2, 3}

Depth == [view |-> 1, near |-> 2, mid |-> 3, scene |-> 4, far |-> 5]

\* what the main camera sees of the two masks in one frame: the pixels each
\* mask covers and the depth of its surface
View(blueFoot, blueDepth, orangeFoot, orangeDepth) ==
  [foot |-> [blue |-> blueFoot, orange |-> orangeFoot], depth |-> [blue |-> blueDepth, orange |-> orangeDepth]]

Views ==
  {View({1}, Depth.near, {2, 3}, Depth.mid),
   View({1, 2}, Depth.near, {2, 3}, Depth.mid),
   View({1, 2}, Depth.mid, {2, 3}, Depth.near),
   View({}, Depth.near, {1, 2}, Depth.near)}

\* through a virtual camera every mesh can lie on every pixel
ThroughPortal == View(Pixels, Depth.view, Pixels, Depth.view)

\* the stencil function of a fragment with reference ref on a stored value
StencilPasses(func, ref, value) ==
  CASE func = "always" -> TRUE
    [] func = "equal" -> value = ref
    [] func = "notequal" -> value # ref

\* the depth function of a fragment at depth z on a stored value
DepthPasses(func, z, value) ==
  CASE func = "always" -> TRUE
    [] func = "lequal" -> z <= value
    [] func = "less" -> z < value

\* WebGLState.setMaterial for one draw call: the stencil test follows
\* material.stencilWrite and the depth function material.depthFunc, each
\* sent to GL only when it differs from the value the renderer remembers;
\* the stencil function and operation are set when stencilWrite is on
SetMaterial(s, m) ==
  [s EXCEPT !.stencilTest = IF m.stencilWrite # s.stencilEnabled THEN m.stencilWrite ELSE @,
            !.stencilEnabled = m.stencilWrite,
            !.stencilFunc = IF m.stencilWrite THEN m.stencilFunc ELSE @,
            !.stencilRef = IF m.stencilWrite THEN m.stencilRef ELSE @,
            !.stencilZPass = IF m.stencilWrite THEN m.stencilZPass ELSE @,
            !.depthFunc = IF m.depthFunc # s.currentDepthFunc THEN m.depthFunc ELSE @,
            !.currentDepthFunc = m.depthFunc]

\* the fragments of one draw call, on the pixels at depth z with material m
\* under the GL state s: a fragment that passes the stencil and the depth
\* test applies the stencil operation and writes its depth
DrawFragments(buf, pixels, z, s, m) ==
  LET hit == {px \in pixels :
                /\ s.stencilTest => StencilPasses(s.stencilFunc, s.stencilRef, buf.stencil[px])
                /\ m.depthTest => DepthPasses(s.depthFunc, z, buf.depth[px])}
      writes == IF s.stencilTest /\ s.stencilZPass # "keep" THEN hit ELSE {}
  IN [stencil |-> [px \in Pixels |-> IF px \in writes THEN s.stencilRef ELSE buf.stencil[px]],
      depth |-> [px \in Pixels |-> IF px \in hit /\ m.depthTest /\ m.depthWrite THEN z ELSE buf.depth[px]],
      wrote |-> buf.wrote \cup writes]

\* one draw call of renderer.render: the renderer state and the buffers after
Draw(g, pixels, z, m) ==
  Eval(SetMaterial(g.state, m), LAMBDA s :
    [g EXCEPT !.state = s, !.buf = DrawFragments(g.buf, pixels, z, s, m)])

\* a material of the scene as it is drawn: depth tested and written
SceneMaterial(mat) == [stencilWrite |-> mat.stencilWrite, stencilFunc |-> mat.stencilFunc,
                       stencilRef |-> mat.stencilRef, stencilZPass |-> mat.stencilZPass,
                       depthTest |-> TRUE, depthWrite |-> TRUE, depthFunc |-> "lequal"]

\* the pixels and the depth of a mesh: a portal border lies on its portal
Cover(mesh, view, z) ==
  IF mesh.portal = "none" THEN [pixels |-> Pixels, z |-> z]
  ELSE [pixels |-> view.foot[mesh.portal], z |-> view.depth[mesh.portal]]

\* the draw calls of one mesh, from material j of its array
RECURSIVE DrawMesh(_, _, _, _, _)
DrawMesh(g, mesh, j, view, z) ==
  IF j > Len(mesh.materials)
  THEN g
  ELSE Eval(Draw(g, Cover(mesh, view, z).pixels, Cover(mesh, view, z).z, SceneMaterial(g.materials[mesh.materials[j]])),
            LAMBDA g1 : DrawMesh(g1, mesh, j + 1, view, z))

\* renderer.render(scene, camera), from mesh i: the meshes drawn are visible,
\* in a visible portal group when they belong to one, and on a layer of the
\* camera
RECURSIVE RenderScene(_, _, _, _, _)
RenderScene(g, i, layers, view, z) ==
  IF i > Len(g.meshes)
  THEN g
  ELSE LET mesh == g.meshes[i]
           drawn == /\ mesh.visible
                    /\ mesh.layer \in layers
                    /\ mesh.portal # "none" => g.visible[mesh.portal]
       IN IF drawn
          THEN Eval(DrawMesh(g, mesh, 1, view, z), LAMBDA g1 : RenderScene(g1, i + 1, layers, view, z))
          ELSE RenderScene(g, i + 1, layers, view, z)

\* renderer.render(maskScene, camera), from mask i of [blue, orange]
RECURSIVE RenderMaskScene(_, _, _)
RenderMaskScene(g, i, view) ==
  IF i > Len(PortalOrder)
  THEN g
  ELSE LET q == PortalOrder[i]
       IN IF g.maskVisible[q]
          THEN Eval(Draw(g, view.foot[q], view.depth[q], g.maskMaterial[q]), LAMBDA g1 : RenderMaskScene(g1, i + 1, view))
          ELSE RenderMaskScene(g, i + 1, view)

\* one call of renderer.render or renderer.clear: the pass, the portal it
\* belongs to, the stencil reference of the portal, whether the portal is
\* placed and linked to a placed portal, the portals visible in the scene,
\* the materials and the renderer state the pass was drawn with, the
\* stencil buffer before and after, and the materials of the scene when the
\* call that draws the pass begins and when it returns
Pass(kind, p, ref, P, before, drawn, after) ==
  [pass |-> kind, portal |-> p, ref |-> ref,
   live |-> IF p = "none" THEN TRUE ELSE PortalActive(P, p),
   shown |-> {q \in PortalNames : drawn.visible[q]},
   materials |-> drawn.materials, maskMaterial |-> drawn.maskMaterial, colorMask |-> drawn.state.colorMask,
   before |-> before.buf.stencil, after |-> drawn.buf.stencil, wrote |-> drawn.buf.wrote,
   saved |-> before.materials, restored |-> after.materials]

\* the pass is entered in the list of the frame
Logged(after, kind, p, ref, P, before, drawn) ==
  [after EXCEPT !.passes = Append(@, Pass(kind, p, ref, P, before, drawn, after))]

\* the pixels whose stencil value a pass has written are counted per pass
Fresh(g) == [g EXCEPT !.buf.wrote = {}]

\* PortalRenderer.configureMask(mask, color, stencilRef) with every mask
\* given the stencil id 1
ConfigureMaskOneRef(mat, stencilRef) ==
  [mat EXCEPT !.depthWrite = TRUE, !.depthTest = TRUE, !.stencilWrite = TRUE, !.stencilFunc = "always",
              !.stencilRef = 1, !.stencilZPass = "replace"]

\* PortalRenderer.configureMask(mask, color, stencilRef)
ConfigureMask(mat, stencilRef) ==
  [mat EXCEPT !.depthWrite = TRUE, !.depthTest = TRUE, !.stencilWrite = TRUE, !.stencilFunc = "always",
              !.stencilRef = stencilRef, !.stencilZPass = "replace"]

\* PortalRenderer.renderPortalMask(mask, color, stencilRef)
RenderPortalMask(P, g, p, ref, view) ==
  Eval(Fresh([g EXCEPT !.maskMaterial[p] = ConfigureMask(@, ref), !.maskVisible[p] = TRUE]), LAMBDA g1 :
  Eval(RenderMaskScene(g1, 1, view), LAMBDA g2 :
    Logged([g2 EXCEPT !.maskVisible[p] = FALSE], "mask", p, ref, P, g, g2)))

\* PortalRenderer.renderPortalView(portal, stencilRef, portalsVisible): the
\* virtual camera sees every layer
RenderPortalView(P, cam, g, p, ref, view) ==
  Eval(ApplyStencilTest(g.meshes, g.materials, ref), LAMBDA applied :
  Eval(Fresh([g EXCEPT !.virtualCam[p] = UpdateVirtualCamera(P, p, cam, @), !.materials = applied.materials]),
       LAMBDA g1 :
  Eval(RenderScene(g1, 1, {0, 1}, ThroughPortal, Depth.view), LAMBDA g2 :
    Logged([g2 EXCEPT !.materials = RestoreMaterials(g.meshes, 1, applied.originalMaterials, g2.materials)],
           "view", p, ref, P, g, g2))))

\* the material of the mask during renderPortalDepthOverride with its
\* stencilWrite left as configureMask set it
DepthOverrideWritesStencil(mat) ==
  [mat EXCEPT !.depthWrite = TRUE, !.depthTest = TRUE, !.depthFunc = "always"]

\* the material of the mask during renderPortalDepthOverride
DepthOverrideMaterial(mat) ==
  [mat EXCEPT !.depthWrite = TRUE, !.depthTest = TRUE, !.depthFunc = "always", !.stencilWrite = FALSE]

\* the color writes are left off
KeepColorMask(g) == g

\* gl.colorMask(true, true, true, true)
EnableColorWrites(g) == [g EXCEPT !.state.colorMask = TRUE]

\* PortalRenderer.renderPortalDepthOverride(mask)
RenderPortalDepthOverride(P, g, p, ref, view) ==
  LET original == g.maskMaterial[p]
  IN Eval(Fresh([g EXCEPT !.state.colorMask = FALSE,
                          !.maskMaterial[p] = DepthOverrideMaterial(@),
                          !.maskVisible[p] = TRUE]), LAMBDA g1 :
     Eval(RenderMaskScene(g1, 1, view), LAMBDA g2 :
       Logged(EnableColorWrites(
                [g2 EXCEPT !.maskVisible[p] = FALSE,
                           !.maskMaterial[p] = [@ EXCEPT !.depthFunc = original.depthFunc,
                                                         !.depthWrite = original.depthWrite,
                                                         !.stencilWrite = original.stencilWrite]]),
              "depth", p, ref, P, g, g2)))

\* the helper renderPortal(portal, otherPortal, mask, color, stencilRef,
\* stepMaskEnabled, stepViewEnabled) of renderPortals
RenderPortal(P, cam, g, p, ref, stepMaskEnabled, stepViewEnabled, view) ==
  Eval(IF stepMaskEnabled THEN RenderPortalMask(P, g, p, ref, view) ELSE g, LAMBDA g1 :
    IF stepViewEnabled
    THEN Eval(RenderPortalView(P, cam, [g1 EXCEPT !.visible = [@ EXCEPT ![Other(p)] = FALSE, ![p] = TRUE]],
                               p, ref, view), LAMBDA g2 :
           IF stepMaskEnabled THEN RenderPortalDepthOverride(P, g2, p, ref, view) ELSE g2)
    ELSE g1)

\* the meshes of the scene on layer 1, counted by step 6
Layer1Count(g) == Cardinality({i \in 1..Len(g.meshes) : g.meshes[i].layer = 1})

\* renderer.clear(color, depth, stencil)
Clear(g, depth, stencil) ==
  [g EXCEPT !.buf = [stencil |-> IF stencil THEN [px \in Pixels |-> 0] ELSE @.stencil,
                     depth |-> IF depth THEN [px \in Pixels |-> Depth.far] ELSE @.depth,
                     wrote |-> {}]]

\* step 4 of renderPortals: the main scene without layer 1
RenderMainScene(P, g, view) ==
  Eval(Fresh([g EXCEPT !.visible = [q \in PortalNames |-> FALSE], !.layers = @ \ {1}]), LAMBDA g1 :
  Eval(RenderScene(g1, 1, g1.layers, view, Depth.scene), LAMBDA g2 :
    Logged([g2 EXCEPT !.layers = @ \cup {1}], "main", "none", 0, P, g, g2)))

\* PortalRenderer.renderPortalBorders(bluePortal, orangePortal)
RenderPortalBorders(P, g, view) ==
  Eval(Fresh([g EXCEPT !.visible = [q \in PortalNames |-> TRUE]]), LAMBDA g1 :
  Eval(Draw(Draw(g1, view.foot["blue"], view.depth["blue"], SceneMaterial(g1.materials["blueBorder"])),
            view.foot["orange"], view.depth["orange"], SceneMaterial(g1.materials["orangeBorder"])), LAMBDA g2 :
    Logged(g2, "borders", "none", 0, P, g, g2)))

\* step 5 of renderPortals: the depth of the scene inside the portal areas,
\* drawn with the GL state set by hand, then the borders
RenderBorderStep(P, g, view) ==
  Eval(Fresh([g EXCEPT !.state = [@ EXCEPT !.stencilTest = TRUE, !.stencilFunc = "notequal", !.stencilRef = 0,
                                           !.stencilZPass = "keep", !.depthFunc = "less", !.colorMask = FALSE],
                       !.visible = [q \in PortalNames |-> FALSE],
                       !.layers = @ \ {1}]), LAMBDA g1 :
  Eval(RenderScene(g1, 1, g1.layers, view, Depth.scene), LAMBDA g2 :
  Eval(Logged(EnableColorWrites([g2 EXCEPT !.layers = @ \cup {1}, !.state.stencilTest = FALSE]),
              "borderDepth", "none", 0, P, g, g2), LAMBDA g3 :
    RenderPortalBorders(P, g3, view))))

\* step 6 of renderPortals: the transparent objects of layer 1
RenderTransparent(P, g, view) ==
  Eval(Clear([g EXCEPT !.visible = [q \in PortalNames |-> FALSE]], FALSE, TRUE), LAMBDA g0 :
  Eval(Logged(g0, "clearStencil", "none", 0, P, g, g0), LAMBDA g1 :
  Eval(RenderScene([g1 EXCEPT !.layers = @ \ {0}], 1, g1.layers \ {0}, view, Depth.scene), LAMBDA g2 :
    Logged([g2 EXCEPT !.layers = @ \cup {0}], "transparent", "none", 0, P, g1, g2))))

\* PortalRenderer.renderPortals(bluePortal, orangePortal, blueMask,
\* orangeMask, debugSteps, fpsObject) on the world matrices P
RenderPortals(P, cam, g, view) ==
  LET steps == g.debugSteps
  IN Eval(Clear([g EXCEPT !.passes = <<>>, !.view = view], TRUE, TRUE), LAMBDA c :
     Eval(Logged(c, "clear", "none", 0, P, g, c), LAMBDA g0 :
     Eval(RenderPortal(P, cam, g0, "blue", StencilRefs["blue"], steps["step0"], steps["step1"], view), LAMBDA g1 :
     Eval(RenderPortal(P, cam, g1, "orange", StencilRefs["orange"], steps["step2"], steps["step3"], view), LAMBDA g2 :
     Eval(IF steps["step4"] THEN RenderMainScene(P, g2, view) ELSE g2, LAMBDA g4 :
     Eval(IF steps["step5"] THEN RenderBorderStep(P, g4, view) ELSE g4, LAMBDA g5 :
       IF steps["step4"] /\ steps["step6"] /\ Layer1Count(g) > 0
       THEN RenderTransparent(P, g5, view)
       ELSE g5))))))

\* the renderer of a new game: nothing rendered yet, the masks invisible,
\* every layer of the main camera enabled, the GL state at its defaults
NewGl(steps, scene) ==
  [debugSteps |-> steps, scene |-> scene, passes |-> <<>>, view |-> View({}, Depth.far, {}, Depth.far),
   meshes |-> Scenes[scene].meshes, materials |-> Scenes[scene].materials,
   visible |-> [q \in PortalNames |-> TRUE],
   virtualCam |-> [q \in PortalNames |-> NewVirtualCam],
   maskMaterial |-> [q \in PortalNames |-> NewMaskMaterial],
   maskVisible |-> [q \in PortalNames |-> FALSE],
   layers |-> {0, 1},
   state |-> [stencilTest |-> FALSE, stencilEnabled |-> FALSE, stencilFunc |-> "always", stencilRef |-> 0,
              stencilZPass |-> "keep", depthFunc |-> "lequal", currentDepthFunc |-> "lequal", colorMask |-> TRUE],
   buf |-> [stencil |-> [px \in Pixels |-> 0], depth |-> [px \in Pixels |-> Depth.far], wrote |-> {}]]

\* the scene of SpecRender: shared materials and a transparent object
RenderScenes == {"shared"}

InitRender ==
  /\ portals = [a \in PortalNames |-> NewPortal]
  /\ fps = [position |-> <<0, 1000, 4000>>, quaternion |-> QIdentity, velocity |-> <<0, 0, 0>>, enabled |-> TRUE,
            canJump |-> FALSE, moveFwd |-> FALSE, moveBack |-> FALSE]
  /\ controller = IdleController
  /\ IdleSession
  /\ cube = IdleCube
  /\ game = IdleGame
  /\ last = NoTick
  /\ rt = IdleRt
  /\ \E steps \in DebugSettings, scene \in RenderScenes : gl = NewGl(steps, scene)

\* PortalGame.render: the stencil test when stepA or stepB is checked,
\* renderPortals otherwise
RenderFrame ==
  /\ \E view \in Views :
       \E P \in {UpdateMatrixWorld(portals)} :
          /\ portals' = P
          /\ gl' = IF gl.debugSteps["stepA"] \/ gl.debugSteps["stepB"]
                   THEN [gl EXCEPT !.passes = <<Pass("stencilTest", "none", 0, P, gl, gl, gl)>>]
                   ELSE RenderPortals(P, [position |-> fps.position, quaternion |-> fps.quaternion], gl, view)
  /\ UNCHANGED <<fps, controller, cube, game, last, rt, session>>

NextRender == LinkPortals \/ PlacePortal \/ RenderFrame

SpecRender == InitRender /\ [][NextRender]_vars

\* the passes of the last frame, by kind
PassIndices(kinds) == {i \in 1..Len(gl.passes) : gl.passes[i].pass \in kinds}

\* the last frame was rendered by renderPortals with every step on
NormalFrame == gl.debugSteps = NormalSteps /\ gl.passes # <<>>

\* C9: in a normal frame, no stencil mask, portal view or depth override
\* pass is rendered for a portal that is unplaced or whose linked portal is
\* missing or unplaced, and the main scene pass and the border pass run
C9_RenderFailureMode ==
  NormalFrame =>
    /\ \A i \in PassIndices({"mask", "view", "depth"}) : gl.passes[i].live
    /\ PassIndices({"main"}) # {}
    /\ PassIndices({"borders"}) # {}

\* C10: in a normal frame the first pass clears the buffers and the main
\* scene is rendered, with both portals hidden, before every portal mask
\* pass and every portal view pass
C10_MainSceneFirst ==
  NormalFrame =>
    /\ gl.passes[1].pass = "clear"
    /\ \E m \in PassIndices({"main"}) :
         /\ gl.passes[m].shown = {}
         /\ \A i \in PassIndices({"mask", "view"}) : m < i

(***************************************************************************)
(* SpecPipeline: PortalRenderer.renderPortals frame after frame, for every *)
(* setting of its debug steps and every scene shape, with the portals as   *)
(* setupPortals leaves them: linked, blue on the back wall and orange on   *)
(* the front wall                                                          *)
(***************************************************************************)
\* every setting of the steps renderPortals reads
PipelineSettings == {steps \in [StepNames -> BOOLEAN] : ~steps["stepA"] /\ ~steps["stepB"]}

InitPipeline ==
  /\ portals = PlacedPair("back", "front")
  /\ fps = [position |-> <<0, 1000, 4000>>, quaternion |-> QIdentity, velocity |-> <<0, 0, 0>>, enabled |-> TRUE,
            canJump |-> FALSE, moveFwd |-> FALSE, moveBack |-> FALSE]
  /\ controller = IdleController
  /\ IdleSession
  /\ cube = IdleCube
  /\ game = IdleGame
  /\ last = NoTick
  /\ rt = IdleRt
  /\ \E steps \in PipelineSettings, scene \in SceneNames : gl = NewGl(steps, scene)

NextPipeline == RenderFrame

SpecPipeline == InitPipeline /\ [][NextPipeline]_vars

\* the passes of the last frame of one kind that belong to portal p
PortalPasses(kind, p) == {i \in 1..Len(gl.passes) : gl.passes[i].pass = kind /\ gl.passes[i].portal = p}

\* C11: in a frame with every step on, each portal has one mask pass drawn
\* with stencil function always, operation replace and the portal's id as
\* reference, then one view pass in which every material of the scene is
\* tested for stencil equal to that id, then one depth override pass; every
\* blue pass comes before every orange pass; the two ids differ and are not 0
C11_PassOrder ==
  NormalFrame =>
    /\ \A p \in PortalNames :
         /\ Cardinality(PortalPasses("mask", p)) = 1
         /\ Cardinality(PortalPasses("view", p)) = 1
         /\ Cardinality(PortalPasses("depth", p)) = 1
         /\ \A m \in PortalPasses("mask", p), v \in PortalPasses("view", p), d \in PortalPasses("depth", p) :
              /\ m < v /\ v < d
              /\ gl.passes[m].maskMaterial[p].stencilWrite
              /\ gl.passes[m].maskMaterial[p].stencilFunc = "always"
              /\ gl.passes[m].maskMaterial[p].stencilZPass = "replace"
              /\ gl.passes[m].maskMaterial[p].stencilRef = gl.passes[m].ref
              /\ gl.passes[v].ref = gl.passes[m].ref
              /\ \A mat \in DOMAIN gl.passes[v].materials :
                   /\ gl.passes[v].materials[mat].stencilWrite
                   /\ gl.passes[v].materials[mat].stencilFunc = "equal"
                   /\ gl.passes[v].materials[mat].stencilRef = gl.passes[m].ref
    /\ \A i, j \in 1..Len(gl.passes) :
         gl.passes[i].portal = "blue" /\ gl.passes[j].portal = "orange" => i < j
    /\ \A m \in PortalPasses("mask", "blue"), n \in PortalPasses("mask", "orange") :
         /\ gl.passes[m].maskMaterial["blue"].stencilRef = 1
         /\ gl.passes[n].maskMaterial["orange"].stencilRef = 2

\* a frame with every step on has drawn the six portal passes, and the
\* orange mask has written its id
C11_Witness ==
  /\ NormalFrame
  /\ \E n \in PortalPasses("mask", "orange") : gl.passes[n].wrote # {}
  /\ PortalPasses("depth", "orange") # {}

\* the footprints of the two masks in the last frame share no pixel
DisjointFootprints == gl.view.foot["blue"] \cap gl.view.foot["orange"] = {}

\* C12: with both portals placed and linked and the mask footprints
\* disjoint, no mask, view or depth override pass of a portal changes or
\* writes a pixel that holds the id of the other portal, and the view and
\* depth override passes write no pixel of the stencil buffer
C12_StencilIsolation ==
  (gl.passes # <<>> /\ DisjointFootprints) =>
    \A i \in 1..Len(gl.passes) :
      LET pass == gl.passes[i]
      IN (pass.portal # "none" /\ pass.live /\ PortalActive(portals, Other(pass.portal))) =>
           /\ \A px \in Pixels :
                pass.before[px] = StencilRefs[Other(pass.portal)] =>
                  pass.after[px] = pass.before[px] /\ px \notin pass.wrote
           /\ pass.pass \in {"view", "depth"} => pass.wrote = {} /\ pass.after = pass.before

\* the orange mask is drawn beside pixels that hold the id of blue, and the
\* orange view and depth override passes are drawn on pixels that hold 2
C12_Witness ==
  /\ gl.passes # <<>> /\ DisjointFootprints
  /\ \A p \in PortalNames : PortalActive(portals, p)
  /\ \E n \in PortalPasses("mask", "orange") :
       /\ gl.passes[n].wrote # {}
       /\ \E px \in Pixels : gl.passes[n].before[px] = StencilRefs["blue"]
  /\ \E v \in PortalPasses("view", "orange"), d \in PortalPasses("depth", "orange"), px \in Pixels :
       gl.passes[v].before[px] = StencilRefs["orange"] /\ gl.passes[d].before[px] = StencilRefs["orange"]

\* C13: when renderPortals returns, whatever steps are enabled, the color
\* mask is on, the stencil test the border step enabled is off, both masks
\* are invisible and the main camera has layers 0 and 1 enabled
C13_StateRestored ==
  (gl.passes # <<>> /\ ~gl.debugSteps["stepA"] /\ ~gl.debugSteps["stepB"]) =>
    /\ gl.state.colorMask
    /\ gl.debugSteps["step5"] => ~gl.state.stencilTest
    /\ \A q \in PortalNames : ~gl.maskVisible[q]
    /\ {0, 1} \subseteq gl.layers

\* a frame in which the depth override and the border step turned the color
\* writes off, and step 6 drew with layer 0 disabled
C13_Witness ==
  /\ gl.passes # <<>>
  /\ \E i \in PassIndices({"depth"}) : ~gl.passes[i].colorMask
  /\ \E i \in PassIndices({"borderDepth"}) : ~gl.passes[i].colorMask
  /\ PassIndices({"transparent"}) # {}

\* C14: when renderPortalView returns, every material of the scene has the
\* stencilWrite, stencilFunc and stencilRef it had when the call began
C14_MaterialsPreserved ==
  \A i \in PassIndices({"view"}) :
    \A mat \in DOMAIN gl.passes[i].saved :
      StencilProps(gl.passes[i].restored[mat]) = StencilProps(gl.passes[i].saved[mat])

\* a view pass on a scene with a material array, a material shared by
\* several meshes and a material with stencil properties of its own, all of
\* them changed for the pass
C14_Witness ==
  /\ gl.scene = "mixed"
  /\ \E i \in PassIndices({"view"}) :
       /\ gl.passes[i].saved["sphere"].stencilFunc = "equal" /\ gl.passes[i].saved["sphere"].stencilRef = 1
       /\ gl.passes[i].ref = 2
       /\ \A mat \in DOMAIN gl.passes[i].saved :
            StencilProps(gl.passes[i].materials[mat]) # StencilProps(gl.passes[i].saved[mat])

(***************************************************************************)
(* SpecPlacement: the fire buttons, PortalPlacement.placePortal on rays    *)
(* that miss, that are blocked, that end near an edge and that end well    *)
(* inside a surface                                                        *)
(***************************************************************************)
\* the intersections of the rays the player fires along, nearest first
Rays ==
  { <<>>,
    <<Intersection("back", <<0, 1000, -HalfRoom>>, <<0, 0, 1>>)>>,
    <<Intersection("back", <<HalfRoom - PlacementMargin, 1000, -HalfRoom>>, <<0, 0, 1>>)>>,
    <<Intersection("back", <<HalfRoom - PlacementMargin + 1, 1000, -HalfRoom>>, <<0, 0, 1>>)>>,
    <<Intersection("back", <<0, 9500, -HalfRoom>>, <<0, 0, 1>>)>>,
    <<Intersection("panel", <<0, 1000, -1900>>, <<0, 0, 1>>),
      Intersection("back", <<0, 1000, -HalfRoom>>, <<0, 0, 1>>)>>,
    <<Intersection("secondFloor", <<-2500, 5100, -2500>>, <<0, 1, 0>>),
      Intersection("floor", <<-2500, 0, -2500>>, <<0, 1, 0>>)>>,
    <<Intersection("secondFloor", <<-600, 5100, -2500>>, <<0, 1, 0>>)>>,
    <<Intersection("secondFloor", <<0, 5000, -2500>>, <<1, 0, 0>>)>>,
    <<Intersection("floor", <<0, 0, 2000>>, <<0, 1, 0>>)>>,
    <<Intersection("left", <<-HalfRoom, 1000, 4500>>, <<1, 0, 0>>)>> }

InitPlacement ==
  /\ portals = Link([a \in PortalNames |-> NewPortal], "blue")
  /\ fps = [position |-> <<0, 1000, 0>>, quaternion |-> QIdentity, velocity |-> <<0, 0, 0>>, enabled |-> TRUE,
            canJump |-> TRUE, moveFwd |-> FALSE, moveBack |-> FALSE]
  /\ rt = IdleRt
  /\ controller = IdleController
  /\ IdleSession
  /\ cube = IdleCube
  /\ game = IdleGame
  /\ last = NoTick
  /\ gl = IdleGl

\* the place-portal callbacks of PortalGame: placePortal(raycaster, portal a);
\* rt keeps the call, the value it returned and the portal as it was
FirePortal ==
  /\ fps.enabled
  /\ \E a \in PortalNames, ray \in Rays :
       \E res \in {PlacePortalAt(portals, a, ray)} :
          /\ portals' = res.portals
          /\ rt' = [stage |-> 3, portal |-> a, ray |-> ray, returned |-> res.placed, before |-> portals[a]]
  /\ UNCHANGED <<fps, controller, cube, game, last, gl, session>>

NextPlacement == FirePortal

SpecPlacement == InitPlacement /\ [][NextPlacement]_vars

\* the hit point is less than placementMargin from the edge of its surface
\* along one of the two axes in which the surface is not thin
NearEdge(i) ==
  LET surface == LevelSurfaces[i.object]
      thin == CHOOSE k \in 1..3 : \A j \in 1..3 : surface.halfSize[k] <= surface.halfSize[j]
  IN \E k \in (1..3) \ {thin} :
       surface.halfSize[k] - Abs(i.point[k] - surface.center[k]) < PlacementMargin

\* the ray hits nothing, or its nearest hit is on a surface that is not
\* portalable, or too near the edge
Rejected(ray) ==
  \/ Len(ray) = 0
  \/ ~LevelSurfaces[ray[1].object].portalable
  \/ NearEdge(ray[1])

\* C19: placePortal returns false and leaves the portal's position,
\* orientation and isPlaced as they were when the ray hits nothing, when the
\* nearest hit is not portalable, or when the hit point is within
\* placementMargin of the edge along a thick axis; otherwise it returns true
\* with the portal placed at the hit by placeAt
C19_PlacementRejection ==
  rt.stage = 3 =>
    LET now == portals[rt.portal]
    IN IF Rejected(rt.ray)
       THEN /\ ~rt.returned
            /\ now.position = rt.before.position
            /\ now.quaternion = rt.before.quaternion
            /\ now.isPlaced = rt.before.isPlaced
       ELSE /\ rt.returned
            /\ now.isPlaced
            /\ now.position = VAdd(rt.ray[1].point, VScale(rt.ray[1].normal, PlacementOffset))
            /\ now.quaternion = SetFromUnitVectors(<<0, 0, 1>>, rt.ray[1].normal)

\* a placed portal has stayed where it was on a ray that a surface which is
\* not portalable blocks in front of a portalable wall
C19_Witness ==
  /\ rt.stage = 3 /\ ~rt.returned
  /\ rt.before.isPlaced /\ portals[rt.portal] = rt.before
  /\ Len(rt.ray) = 2
  /\ ~LevelSurfaces[rt.ray[1].object].portalable /\ LevelSurfaces[rt.ray[2].object].portalable

\* a placement exactly placementMargin from the edge has been accepted
C19_AtMargin ==
  /\ rt.stage = 3 /\ rt.returned
  /\ rt.ray[1].point[1] = HalfRoom - PlacementMargin

(***************************************************************************)
(* SpecCubes: PortalGame.updatePhysics in play mode, on a level that uses  *)
(* the default cube and on levels with editor-placed cubes, the cubes in   *)
(* flight towards a portal after a fall or a throw                         *)
(***************************************************************************)
MaxCubeFrames == 3

\* r of updateSimpleCubePhysics ("cube half-size")
SimpleCubeHalf == 250

\* the largest k in lo..hi with k * k <= n
RECURSIVE ISqrtBetween(_, _, _)
ISqrtBetween(n, lo, hi) ==
  IF lo >= hi THEN lo
  ELSE Eval((lo + hi + 1) \div 2, LAMBDA mid :
         IF mid * mid <= n THEN ISqrtBetween(n, mid, hi) ELSE ISqrtBetween(n, lo, mid - 1))

\* Vector3.length, rounded down to the millimetre
Length(v) == ISqrtBetween(LenSq(v), 0, 4 * RoomScale)

\* the obstacle loop of updateSimpleCubePhysics, from obstacle i
RECURSIVE SimpleObstacles(_, _, _, _)
SimpleObstacles(obs, i, nextPos, vel) ==
  IF i > Len(obs) THEN [pos |-> nextPos, vel |-> vel]
  ELSE LET expanded == ExpandByScalar(obs[i], SimpleCubeHalf)
       IN IF ContainsPoint(expanded, nextPos)
          THEN LET center == [a \in 1..3 |-> (expanded.min[a] + expanded.max[a]) \div 2]
                   d == VSub(nextPos, center)
                   len == Length(d)
                   reach == Length(VSub(expanded.max, expanded.min)) \div 2 + SimpleCubeHalf
                   pushed == IF len = 0 THEN center ELSE [a \in 1..3 |-> center[a] + (d[a] * reach) \div len]
               IN SimpleObstacles(obs, i + 1, pushed, [a \in 1..3 |-> vel[a] \div 2])
          ELSE SimpleObstacles(obs, i + 1, nextPos, vel)

\* PortalGame.updateSimpleCubePhysics(cube, dt, obstacles): the cube
\* afterwards and the step prev -> next it was moved by
UpdateSimpleCubePhysics(k, dt, obstacles) ==
  LET vel == [k.velocity EXCEPT ![2] = k.velocity[2] - GravityStep(dt)]
      next == VAdd(k.position, <<OverDt(vel[1], dt), OverDt(vel[2], dt), OverDt(vel[3], dt)>>)
      r == SimpleCubeHalf
      x == Clamp(next[1], ChamberMin[1] + r, ChamberMax[1] - r)
      z == Clamp(next[3], ChamberMin[3] + r, ChamberMax[3] - r)
      landed == next[2] - r < ChamberMin[2]
      y == IF landed THEN ChamberMin[2] + r ELSE next[2]
      vel1 == IF landed THEN [vel EXCEPT ![2] = 0] ELSE vel
  IN Eval(SimpleObstacles(obstacles, 1, <<x, y, z>>, vel1), LAMBDA o :
       [cube |-> [k EXCEPT !.position = o.pos, !.velocity = o.vel],
        prev |-> k.position, next |-> next, cooldown |-> k.portalCooldown])

\* this.editorCubes.forEach of updatePhysics, from cube i of the array ids:
\* the objects afterwards and, for each cube, whether it was updated and the
\* step it was moved by
RECURSIVE UpdateEditorCubes(_, _, _, _, _, _)
UpdateEditorCubes(H, ids, i, dt, obstacles, log) ==
  IF i > Len(ids) THEN [heap |-> H, log |-> log]
  ELSE IF H[ids[i]].isGrabbed
       THEN UpdateEditorCubes(H, ids, i + 1, dt, obstacles,
              log @@ (ids[i] :> [free |-> FALSE, trigger |-> "none", prev |-> H[ids[i]].position,
                                 next |-> H[ids[i]].position, cooldown |-> H[ids[i]].portalCooldown]))
       ELSE Eval(UpdateSimpleCubePhysics(H[ids[i]], dt, obstacles), LAMBDA u :
              UpdateEditorCubes([H EXCEPT ![ids[i]] = u.cube], ids, i + 1, dt, obstacles,
                log @@ (ids[i] :> [free |-> TRUE, trigger |-> "none", prev |-> u.prev, next |-> u.next,
                                   cooldown |-> u.cooldown])))

\* the held cube moved half way to its place in front of the camera
\* (position.lerp(target, grabLerpSpeed))
FollowCamera(k, f) ==
  LET target == VAdd(f.position, VScale(ApplyQuaternion(<<0, 0, -1>>, f.quaternion), GrabDistance))
  IN [k EXCEPT !.position = [i \in 1..3 |-> k.position[i] + (target[i] - k.position[i]) \div 2]]

\* InteractionSystem.updateGrabbedCube on the default cube k and the editor's
\* objects H: this.grabbedCube follows the camera
FollowGrabbed(hands, k, H, f) ==
  IF hands.grabbedCube = "null" THEN [cube |-> k, heap |-> H]
  ELSE IF hands.grabbedCube = "defaultCube" THEN [cube |-> FollowCamera(k, f), heap |-> H]
  ELSE [cube |-> k, heap |-> [H EXCEPT ![hands.grabbedCube] = FollowCamera(@, f)]]

\* PortalGame.updatePhysics(dt): the player, the orientation recovery, the
\* held cube, this.cube and this.editorCubes
UpdatePhysics(P, c, f, k, H, g, hands, interval, settled) ==
  Eval(FrameDt(interval), LAMBDA dt :
  Eval(FpsUpdate(P, Elapse(c, interval), f, PortalOrder, dt, LevelObstacles), LAMBDA player :
  Eval(RecoverOrientation(player.controller, player.fps, settled), LAMBDA rec :
  Eval(FollowGrabbed(hands, k, H, rec.fps), LAMBDA held :
  Eval(IF g.cube = "defaultCube"
       THEN CubeUpdate(player.portals, held.cube, PortalOrder, dt, LevelObstacles)
       ELSE [cube |-> held.cube, portals |-> player.portals, called |-> FALSE, trigger |-> "none",
             prev |-> held.cube.position, next |-> held.cube.position, cooldown |-> held.cube.portalCooldown],
       LAMBDA body :
  Eval(UpdateEditorCubes(held.heap, g.editorCubes, 1, dt, LevelObstacles, <<>>), LAMBDA editor :
    [portals |-> body.portals, fps |-> rec.fps, controller |-> rec.controller,
     cube |-> body.cube, heap |-> editor.heap,
     last |-> [op |-> "frame", dt |-> dt,
               default |-> [free |-> body.called, trigger |-> body.trigger, prev |-> body.prev,
                            next |-> body.next, cooldown |-> body.cooldown],
               editor |-> editor.log]]))))))

\* a PhysicsCube of the level, in flight
FlyingCube(pos, vel) == [position |-> pos, velocity |-> vel, portalCooldown |-> 0, isGrabbed |-> FALSE]

\* where a cube is and how it moves when the frames begin: above the floor
\* portal, thrown at the back wall portal, falling beside the portals
CubeStarts ==
  {FlyingCube(<<0, 400, 2000>>, <<0, -6000, 0>>),
   FlyingCube(<<0, 1000, -4500>>, <<0, 0, -6000>>),
   FlyingCube(<<2000, 1000, -2000>>, <<0, -1000, 0>>)}

\* the editor-placed cubes of the level: none, one or two
CubeLevels == {<<>>} \cup {<<a>> : a \in CubeStarts} \cup {<<a, b>> : a \in CubeStarts, b \in CubeStarts}

\* the surfaces the two portals are on
CubePortalHits == {"back", "floor", "front"}

\* the names of the objects the editor creates, in the order of creation
ObjectIds == <<"cube1", "cube2">>

\* PortalGame after startPlayMode and setupLevel: this.cube is the default
\* cube when the editor holds no cube, and null with this.editorCubes set
\* otherwise (this.editorCubes is never an empty array: <<>> stands for null)
PlayGame(ids) ==
  [mode |-> "play", levelCompleted |-> FALSE, frame |-> 0,
   cube |-> IF ids = <<>> THEN "defaultCube" ELSE "null",
   editorCubes |-> ids]

InitCubes ==
  /\ \E ha \in CubePortalHits : \E hb \in CubePortalHits \ {ha} : portals = PlacedPair(ha, hb)
  /\ fps = [position |-> <<0, 1000, 4000>>, quaternion |-> QIdentity, velocity |-> <<0, 0, 0>>, enabled |-> TRUE,
            canJump |-> TRUE, moveFwd |-> FALSE, moveBack |-> FALSE]
  /\ controller = IdleController
  /\ \E level \in CubeLevels, start \in CubeStarts, holding \in BOOLEAN :
       LET first == IF level = <<>> THEN "defaultCube" ELSE ObjectIds[1]
           ids == SubSeq(ObjectIds, 1, Len(level))
       IN /\ heap = [id \in {ids[i] : i \in DOMAIN level} |->
                      LET i == CHOOSE j \in DOMAIN level : ids[j] = id
                      IN IF holding /\ i = 1 THEN [level[i] EXCEPT !.isGrabbed = TRUE] ELSE level[i]]
          /\ cube = IF level = <<>>
                    THEN (IF holding THEN [start EXCEPT !.isGrabbed = TRUE] ELSE start)
                    ELSE IdleCube
          /\ level # <<>> => start = CHOOSE k \in CubeStarts : TRUE
          /\ editMode = [NewEditMode EXCEPT !.objects = ids]
          /\ game = PlayGame(ids)
          /\ interaction = [NewInteraction EXCEPT !.grabbedCube = IF holding THEN first ELSE "null"]
  /\ last = [op |-> "none"]
  /\ rt = IdleRt
  /\ gl = IdleGl
  /\ dom = [NewDom EXCEPT !.hidden.startMenu = TRUE, !.hidden.ui = FALSE, !.backToMenu = "block"]
  /\ sceneGraph = NewSceneGraph
  /\ storage = <<>>
  /\ manager = [currentSlot |-> 1]

\* PortalGame.animate in play mode: updatePhysics, checkGoalCompletion, render
CubesTick ==
  /\ game.frame < MaxCubeFrames
  /\ \E interval \in FrameTimes :
       \E n \in {UpdatePhysics(portals, controller, fps, cube, heap, game, interaction, interval, FALSE)} :
          \E goal \in {CheckGoalCompletion(game, n.fps)} :
             /\ portals' = UpdateMatrixWorld(n.portals)
             /\ fps' = goal.fps
             /\ controller' = n.controller
             /\ cube' = n.cube
             /\ heap' = n.heap
             /\ game' = [goal.game EXCEPT !.frame = @ + 1]
             /\ last' = n.last
  /\ UNCHANGED <<rt, gl, editMode, interaction, dom, sceneGraph, storage, manager>>

NextCubes == CubesTick

SpecCubes == InitCubes /\ [][NextCubes]_vars

\* the portal, first in the order of the portal loop, that the step
\* prev -> next of a cube out of cooldown crosses inside the aperture
Crossed(step) ==
  {p \in PortalNames : PortalActive(portals, p) /\ step.cooldown = 0
                       /\ CubeCrossing(portals, p, step.prev, step.next).hit}

\* the cubes of the level that were not held on the last frame, with the
\* step each made
FreeSteps ==
  (IF game.cube = "defaultCube" /\ last.default.free THEN {last.default} ELSE {})
  \cup {last.editor[i] : i \in {j \in DOMAIN last.editor : last.editor[j].free}}

\* C23: on every play-mode frame each cube that is not held, the default
\* cube and every editor-placed cube, is teleported when its step crosses a
\* placed, linked portal inside the aperture while it is not in cooldown.
C23_EveryFreeCubeTested ==
  last.op = "frame" => \A step \in FreeSteps : Crossed(step) # {} => step.trigger \in Crossed(step)

\* the default cube is teleported whenever its step crosses a portal
C23_DefaultCubeTested ==
  (last.op = "frame" /\ game.cube = "defaultCube" /\ last.default.free)
  => (Crossed(last.default) # {} => last.default.trigger \in Crossed(last.default))

\* the default cube has crossed a portal and has been teleported
C23_DefaultCubeCrossed ==
  /\ last.op = "frame"
  /\ game.cube = "defaultCube"
  /\ last.default.trigger # "none"

(***************************************************************************)
(* SpecViews: renderPortalView of src/portalRenderer.js, whose             *)
(* applyStencilTest saves the originals object by object, on scenes with   *)
(* and without shared materials                                            *)
(***************************************************************************)
MaxViews == 3

\* materials.forEach of applyStencilTest in src/portalRenderer.js, from
\* material j of one object: st.originals are the values the materials have
\* when the traversal reaches the object
RECURSIVE SaveOriginals(_, _, _, _)
SaveOriginals(mats, j, stencilRef, st) ==
  IF j > Len(mats)
  THEN st
  ELSE SaveOriginals(mats, j + 1, stencilRef,
         [materials |-> [st.materials EXCEPT ![mats[j]] = [@ EXCEPT !.stencilWrite = TRUE, !.stencilFunc = "equal",
                                                                    !.stencilRef = stencilRef]],
          originals |-> Append(st.originals, StencilProps(st.materials[mats[j]]))])

\* scene.traverse of applyStencilTest in src/portalRenderer.js, from mesh i:
\* originalMaterials.set(obj, originals)
RECURSIVE TraverseObjects(_, _, _, _)
TraverseObjects(meshes, i, stencilRef, st) ==
  IF i > Len(meshes)
  THEN st
  ELSE Eval(SaveOriginals(meshes[i].materials, 1, stencilRef, [materials |-> st.materials, originals |-> <<>>]),
            LAMBDA r :
         TraverseObjects(meshes, i + 1, stencilRef,
           [materials |-> r.materials, originalMaterials |-> Append(st.originalMaterials, r.originals)]))

\* PortalRenderer.renderPortalView(portal, stencilRef) of src/portalRenderer.js
RenderPortalViewPerObject(P, cam, g, p, ref) ==
  Eval(TraverseObjects(g.meshes, 1, ref, [materials |-> g.materials, originalMaterials |-> <<>>]), LAMBDA applied :
  Eval(Fresh([g EXCEPT !.virtualCam[p] = UpdateVirtualCamera(P, p, cam, @), !.materials = applied.materials]),
       LAMBDA g1 :
  Eval(RenderScene(g1, 1, {0, 1}, ThroughPortal, Depth.view), LAMBDA g2 :
    Logged([g2 EXCEPT !.materials = RestoreMaterials(g.meshes, 1, applied.originalMaterials, g2.materials)],
           "view", p, ref, P, g, g2))))

\* the goal door of LevelBuilder.buildGoal: three frame bars that share
\* frameMaterial, and the plane in the middle
DoorScene ==
  [meshes |-> <<Mesh(<<"frame">>, TRUE, 0, "none"), Mesh(<<"frame">>, TRUE, 0, "none"),
                Mesh(<<"frame">>, TRUE, 0, "none"), Mesh(<<"plane">>, TRUE, 0, "none")>> \o PortalMeshes,
   materials |-> MaterialsOf({"frame", "plane"})]

\* the renderer over a scene of Scenes or over the goal door
ViewGl(scene) ==
  IF scene = "door"
  THEN [NewGl(NormalSteps, "plain") EXCEPT !.scene = "door", !.meshes = DoorScene.meshes,
                                           !.materials = DoorScene.materials]
  ELSE NewGl(NormalSteps, scene)

ViewScenes == SceneNames \cup {"door"}

\* the materials of the scene that more than one mesh, or one mesh more
\* than once, refers to
SharedMaterials(meshes) ==
  {m \in UNION {{meshes[i].materials[j] : j \in DOMAIN meshes[i].materials} : i \in DOMAIN meshes} :
     Cardinality({<<i, j>> \in (DOMAIN meshes) \X (1..3) :
                    j \in DOMAIN meshes[i].materials /\ meshes[i].materials[j] = m}) > 1}

InitViews ==
  /\ \E ha \in {"back", "floor"} : portals = PlacedPair(ha, "front")
  /\ fps = [position |-> <<0, 1000, 4000>>, quaternion |-> QIdentity, velocity |-> <<0, 0, 0>>, enabled |-> TRUE,
            canJump |-> FALSE, moveFwd |-> FALSE, moveBack |-> FALSE]
  /\ controller = IdleController
  /\ IdleSession
  /\ cube = IdleCube
  /\ game = IdleGame
  /\ last = NoTick
  /\ rt = IdleRt
  /\ \E scene \in ViewScenes : gl = ViewGl(scene)

\* one call of renderPortalView
PortalView ==
  /\ Len(gl.passes) < MaxViews
  /\ \E p \in PortalNames :
       gl' = RenderPortalViewPerObject(portals, [position |-> fps.position, quaternion |-> fps.quaternion],
                                       gl, p, StencilRefs[p])
  /\ UNCHANGED <<portals, fps, controller, cube, game, last, rt, session>>

NextViews == PortalView

SpecViews == InitViews /\ [][NextViews]_vars

\* C24: when renderPortalView of src/portalRenderer.js returns, every
\* material of the scene has the stencilWrite, stencilFunc and stencilRef it
\* had when the call began, also when meshes share a material.
C24_SharedMaterialsPreserved ==
  \A i \in PassIndices({"view"}) :
    \A mat \in DOMAIN gl.passes[i].saved :
      StencilProps(gl.passes[i].restored[mat]) = StencilProps(gl.passes[i].saved[mat])

\* the materials that no second mesh refers to are restored
C24_UnsharedMaterialsPreserved ==
  \A i \in PassIndices({"view"}) :
    \A mat \in DOMAIN gl.passes[i].saved \ SharedMaterials(gl.meshes) :
      StencilProps(gl.passes[i].restored[mat]) = StencilProps(gl.passes[i].saved[mat])

\* the frame material of the goal door is left with the stencil test of the
\* blue view
C24_DoorFrameTested ==
  /\ gl.scene = "door"
  /\ Len(gl.passes) = 1
  /\ gl.passes[1].portal = "blue"
  /\ StencilProps(gl.materials["frame"]) = [stencilWrite |-> TRUE, stencilFunc |-> "equal", stencilRef |-> 1]

(***************************************************************************)
(* SpecReplace: play after startPlayMode has placed the initial portals    *)
(* and a frame has rendered them; the player re-places portals between     *)
(* the frames                                                              *)
(***************************************************************************)
\* the surfaces of the two portals when the frames begin: the back and the
\* front wall of placeInitialPortals
StartPairs == {<<"back", "front">>}

InitReplace ==
  /\ \E pair \in StartPairs : portals = UpdateMatrixWorld(PlacedPair(pair[1], pair[2]))
  /\ \E s \in Scenarios :
       /\ fps = [position |-> s.pos, quaternion |-> QIdentity, velocity |-> s.vel, enabled |-> s.enabled,
                 canJump |-> FALSE, moveFwd |-> s.walking, moveBack |-> FALSE]
       /\ cube = [position |-> s.cubePos, velocity |-> s.cubeVel, portalCooldown |-> 0, isGrabbed |-> s.grabbed]
  /\ controller = IdleController
  /\ IdleSession
  /\ game = IdleGame
  /\ last = NoTick
  /\ rt = IdleRt
  /\ gl = IdleGl

NextReplace == PlacePortal \/ Tick

SpecReplace == InitReplace /\ [][NextReplace]_vars

\* C25: a traversal on the first tick after a portal was re-placed sends the player and the
\* cube where they would go had the world matrices of both portals been
\* refreshed before the tick, whichever portal is entered.
C25_CurrentPlacement ==
  [][(last'.op = "tick" /\ (last'.playerTrigger # "none" \/ last'.cubeTrigger # "none")) =>
       \A n \in {Frame(UpdateMatrixWorld(portals), controller, fps, cube, game, PortalOrder,
                       last'.interval, last'.settled)} :
          /\ fps'.position = n.fps.position
          /\ fps'.quaternion = n.fps.quaternion
          /\ cube'.position = n.cube.position]_vars

\* a player who enters the second portal of the loop leaves by the current
\* placement of the first: the loop has refreshed the first portal's matrix
C25_OrangeEntryCurrent ==
  [][(last'.op = "tick" /\ last'.playerTrigger = "orange") =>
       \A n \in {Frame(UpdateMatrixWorld(portals), controller, fps, cube, game, PortalOrder,
                       last'.interval, last'.settled)} :
          /\ fps'.position = n.fps.position
          /\ fps'.quaternion = n.fps.quaternion]_vars

(***************************************************************************)
(* SpecSession: PortalGame from its construction on: the start menu, the   *)
(* editor, play mode, the listeners of the keys and of the canvas, the     *)
(* retry and back-to-menu buttons, and the frames                          *)
(***************************************************************************)
MaxSessionFrames == 1

MaxSessionEvents == 5

\* the program's objects as one record, for the handlers that call each other
World ==
  [portals |-> portals, fps |-> fps, controller |-> controller, cube |-> cube, game |-> game,
   editMode |-> editMode, interaction |-> interaction, heap |-> heap, dom |-> dom, sceneGraph |-> sceneGraph]

\* EditMode.deselectObject
DeselectObject(w) ==
  [w EXCEPT !.editMode.selectedObject = "null",
            !.editMode.transformControls.object = "null",
            !.editMode.transformControls.visible = FALSE,
            !.editMode.selectionCircle = FALSE]

\* EditMode.setTransformMode(mode)
SetTransformMode(w) ==
  IF w.editMode.selectedObject = "null" THEN w ELSE [w EXCEPT !.editMode.transformControls.visible = TRUE]

\* EditMode.selectObject(obj)
SelectObject(w, obj) ==
  Eval([w EXCEPT !.editMode.selectedObject = obj, !.editMode.transformControls.object = obj], LAMBDA w1 :
  Eval(IF w1.editMode.currentToolMode = "select"
       THEN [w1 EXCEPT !.editMode.transformControls.visible = FALSE,
                       !.editMode.transformControls.enabled = FALSE,
                       !.editMode.selectionCircle = TRUE]
       ELSE SetTransformMode([w1 EXCEPT !.editMode.selectionCircle = FALSE,
                                        !.editMode.transformControls.enabled = TRUE]), LAMBDA w2 :
    [w2 EXCEPT !.editMode.selectedObjectType = "null"]))

\* the objects the cursor can pick in selectObjectAtCursor: the editor's
\* objects and the default objects that are visible
Selectable(w) ==
  {w.editMode.objects[i] : i \in DOMAIN w.editMode.objects}
  \cup {o \in {"defaultCube", "goal", "secondFloor"} : w.sceneGraph.visible[o]}

\* EditMode.selectObjectAtCursor, the cursor's ray hitting target first
SelectObjectAtCursor(w, target) ==
  IF target \in Selectable(w) THEN SelectObject(w, target) ELSE DeselectObject(w)

\* the array without the entries equal to x (indexOf and splice)
Spliced(seq, x) == SelectSeq(seq, LAMBDA y : y # x)

\* EditMode.deleteSelectedObject
DeleteSelectedObject(w) ==
  IF w.editMode.selectedObject = "null" THEN w
  ELSE [w EXCEPT !.sceneGraph.children = @ \ {w.editMode.selectedObject},
                 !.editMode.objects = Spliced(@, w.editMode.selectedObject),
                 !.editMode.transformControls.object = "null",
                 !.editMode.transformControls.visible = FALSE,
                 !.editMode.selectedObject = "null"]

\* EditMode.createCube(position) and the end of placeObject: the new
\* PhysicsCube is added to the scene and to this.objects
PlaceObject(w, position) ==
  IF w.editMode.selectedObjectType = "null" THEN w
  ELSE LET id == ObjectIds[Cardinality(DOMAIN w.heap) + 1]
       IN [w EXCEPT !.heap = @ @@ (id :> FlyingCube(position, <<0, 0, 0>>)),
                    !.sceneGraph.children = @ \cup {id},
                    !.editMode.objects = Append(@, id)]

\* EditMode.showDefaultObjects and hideDefaultObjects
SetDefaultObjects(w, shown) ==
  [w EXCEPT !.sceneGraph.visible = [defaultCube |-> shown, goal |-> shown, secondFloor |-> shown]]

\* the orientations the editor's camera is left in: enter() looks at the
\* ground from a corner and the mouse look turns the camera from there;
\* the view is drawn from the upright orientations along the z axis
EditViews == {QIdentity, MakeRotationAxisPi(<<0, 1, 0>>)}

\* EditMode.enter with the camera left looking along view
EditModeEnter(w, view) ==
  SetDefaultObjects(
    [w EXCEPT !.dom.hidden.editUi = FALSE, !.dom.hidden.ui = TRUE, !.dom.hidden.startMenu = TRUE,
              !.fps.position = <<3000, 6000, 3000>>, !.fps.quaternion = view,
              !.sceneGraph.children = @ \cup {"transformControls"},
              !.editMode.transformControls = [object |-> "null", visible |-> FALSE, enabled |-> TRUE]],
    TRUE)

\* EditMode.exit
EditModeExit(w) ==
  Eval(DeselectObject([w EXCEPT !.dom.hidden.editUi = TRUE, !.dom.hidden.startMenu = FALSE,
                                !.editMode.selectedObjectType = "null"]), LAMBDA w1 :
    SetDefaultObjects(
      [w1 EXCEPT !.editMode.isMouseLookActive = FALSE,
                 !.editMode.transformControls = [object |-> "null", visible |-> FALSE, enabled |-> FALSE],
                 !.sceneGraph.children = @ \ {"transformControls"}],
      FALSE))

\* onKeyDown of EditMode.setupControls
EditModeKeyDown(w, code) ==
  IF code \in {"KeyW", "KeyE", "KeyR"}
  THEN IF w.editMode.isMouseLookActive THEN w
       ELSE SetTransformMode(
              [w EXCEPT !.editMode.currentToolMode =
                          IF code = "KeyW" THEN "translate" ELSE IF code = "KeyE" THEN "rotate" ELSE "scale",
                        !.editMode.selectionCircle = FALSE,
                        !.editMode.transformControls.enabled = TRUE])
  ELSE IF code = "KeyQ"
  THEN IF w.editMode.isMouseLookActive THEN w
       ELSE [w EXCEPT !.editMode.currentToolMode = "select",
                      !.editMode.transformControls.visible = FALSE,
                      !.editMode.transformControls.enabled = FALSE,
                      !.editMode.selectionCircle = (w.editMode.selectedObject # "null")]
  ELSE IF code \in {"Delete", "Backspace"} THEN DeleteSelectedObject(w)
  ELSE IF code = "Escape"
  THEN IF w.editMode.selectedObjectType # "null"
       THEN [w EXCEPT !.editMode.selectedObjectType = "null"]
       ELSE DeselectObject(w)
  ELSE w

\* the click listener of EditMode.setupControls on the canvas: position is
\* where the preview mesh is, target what the cursor's ray hits first
EditModeClick(w, position, target) ==
  IF w.editMode.selectedObjectType # "null" THEN PlaceObject(w, position) ELSE SelectObjectAtCursor(w, target)

\* CONFIG.player.startPosition
PlayerStartPosition == <<0, 1000, 4000>>

\* CONFIG.physics.cubeStartPosition
CubeStartPosition == <<0, 2000, 0>>

\* CONFIG.interaction.throwStrength.max
ThrowStrengthMax == 28000

\* PortalGame after its constructor: no mode, no level, the play-mode
\* listeners not yet added (wired); frame and events count the frames and
\* the input events so far
NewGame ==
  [mode |-> "null", levelCompleted |-> FALSE, cube |-> "null", editorCubes |-> <<>>,
   hasPortals |-> FALSE, wired |-> FALSE, frame |-> 0, events |-> 0]

\* PortalPlacement.placeInitialPortals(bluePortal, orangePortal)
PlaceInitialPortals(P) == PlaceAt(PlaceAt(P, "blue", Hits["back"]), "orange", Hits["front"])

\* PointerLockControls.unlock with the unlock listeners of FPSController and
\* of setupClickToPlayHint
UnlockPointer(w) ==
  IF ~w.fps.enabled THEN w
  ELSE [w EXCEPT !.fps.enabled = FALSE,
                 !.dom.hidden.clickToPlay = IF w.game.wired /\ w.game.mode = "play" THEN FALSE ELSE @]

\* PointerLockControls.lock with the lock listeners
LockPointer(w) ==
  IF w.fps.enabled THEN w
  ELSE [w EXCEPT !.fps.enabled = TRUE, !.dom.hidden.clickToPlay = IF w.game.wired THEN TRUE ELSE @]

\* PlayerController.reset and InteractionSystem.reset
ResetControllers(w) ==
  [w EXCEPT !.controller.orientationCorrection = NoCorrection,
            !.interaction = [grabbedCube |-> "null", chargeActive |-> FALSE]]

\* the player put back to the start: velocity, position and rotation
ResetPlayer(w) ==
  [w EXCEPT !.fps.velocity = <<0, 0, 0>>, !.fps.position = PlayerStartPosition, !.fps.quaternion = QIdentity]

\* PortalGame.setupLevel: every object of the editor is a cube
SetupLevel(w) ==
  IF w.editMode.objects = <<>>
  THEN [w EXCEPT !.game.cube = "defaultCube",
                 !.sceneGraph.visible = [defaultCube |-> TRUE, goal |-> TRUE, secondFloor |-> TRUE],
                 !.cube.position = CubeStartPosition,
                 !.cube.velocity = <<0, 0, 0>>]
  ELSE [w EXCEPT !.game.cube = "null",
                 !.game.editorCubes = w.editMode.objects,
                 !.sceneGraph.visible = [defaultCube |-> FALSE, goal |-> TRUE, secondFloor |-> TRUE]]

\* PortalGame.setupPortals
SetupPortals(w) ==
  [w EXCEPT !.portals = PlaceInitialPortals(Link([a \in PortalNames |-> NewPortal], "blue")),
            !.sceneGraph.children = @ \cup {"bluePortal", "orangePortal"},
            !.game.hasPortals = TRUE]

\* PortalGame.startPlayMode on a desktop, the editor holding no spawner
StartPlayMode(w) ==
  Eval(EditModeExit([w EXCEPT !.game.mode = "play", !.dom.hidden.startMenu = TRUE, !.dom.hidden.ui = FALSE,
                              !.dom.backToMenu = "block"]), LAMBDA w1 :
  Eval(SetupLevel([w1 EXCEPT !.dom.hidden.clickToPlay = FALSE, !.fps.position = PlayerStartPosition]), LAMBDA w2 :
    [SetupPortals(w2) EXCEPT !.game.levelCompleted = FALSE, !.game.wired = TRUE]))

\* PortalGame.startEditMode
StartEditMode(w, view) == EditModeEnter(UnlockPointer([w EXCEPT !.game.mode = "edit"]), view)

\* PortalGame.resetLevel: the state it leaves and whether it threw (this.cube
\* or this.bluePortal is null)
ResetLevel(w) ==
  Eval(ResetControllers(ResetPlayer([w EXCEPT !.game.levelCompleted = FALSE, !.dom.hidden.levelComplete = TRUE])),
       LAMBDA w1 :
    IF w1.game.cube = "null" THEN [world |-> w1, threw |-> TRUE]
    ELSE Eval([w1 EXCEPT !.cube.position = CubeStartPosition, !.cube.velocity = <<0, 0, 0>>], LAMBDA w2 :
           IF ~w2.game.hasPortals THEN [world |-> w2, threw |-> TRUE]
           ELSE [world |-> [w2 EXCEPT !.portals = PlaceInitialPortals(@)], threw |-> FALSE]))

\* PortalGame.exitToMenu
ExitToMenu(w) ==
  Eval(UnlockPointer(w), LAMBDA w1 :
  Eval([w1 EXCEPT !.dom.hidden.ui = TRUE, !.dom.hidden.levelComplete = TRUE, !.dom.backToMenu = "none",
                  !.dom.hidden.clickToPlay = TRUE, !.dom.hidden.startMenu = FALSE,
                  !.sceneGraph.visible = [defaultCube |-> FALSE, goal |-> FALSE, secondFloor |-> FALSE],
                  !.sceneGraph.children = @ \ {"bluePortal", "orangePortal"},
                  !.game.cube = "null", !.game.editorCubes = <<>>, !.game.hasPortals = FALSE,
                  !.portals = [a \in PortalNames |-> NewPortal]], LAMBDA w2 :
    [ResetControllers(ResetPlayer(w2)) EXCEPT !.game.mode = "null"]))

\* the cube record a name refers to
CubeOf(w, name) == IF name = "defaultCube" THEN w.cube ELSE w.heap[name]

\* the world with the cube of that name replaced
WithCube(w, name, k) == IF name = "defaultCube" THEN [w EXCEPT !.cube = k] ELSE [w EXCEPT !.heap[name] = k]

\* the dynamic meshes of scene.traverse in tryGrab
DynamicMeshes(w) == {n \in w.sceneGraph.children : n = "defaultCube" \/ n \in DOMAIN w.heap}

\* InteractionSystem.tryGrab(raycaster), the ray hitting target first and
\* within grabCheckDistance
TryGrabTarget(w, target) ==
  IF w.interaction.grabbedCube # "null" \/ target \notin DynamicMeshes(w) THEN w
  ELSE WithCube([w EXCEPT !.interaction.grabbedCube = target], target,
                [CubeOf(w, target) EXCEPT
                   !.isGrabbed = TRUE,
                   !.velocity = <<0, 0, 0>>,
                   !.position = VAdd(w.fps.position,
                                     VScale(ApplyQuaternion(<<0, 0, -1>>, w.fps.quaternion), GrabDistance))])

\* InteractionSystem.startCharge
StartCharge(w) ==
  IF w.interaction.grabbedCube # "null" /\ ~w.interaction.chargeActive
  THEN [w EXCEPT !.interaction.chargeActive = TRUE]
  ELSE w

\* InteractionSystem.releaseThrow(fps.velocity) with chargeValue * max = strength
ReleaseThrow(w, strength) ==
  IF w.interaction.grabbedCube = "null" \/ ~w.interaction.chargeActive THEN w
  ELSE LET forward == ApplyQuaternion(<<0, 0, -1>>, w.fps.quaternion)
           momentumCarry == Dot(w.fps.velocity, forward)
           name == w.interaction.grabbedCube
       IN WithCube([w EXCEPT !.interaction = [grabbedCube |-> "null", chargeActive |-> FALSE]], name,
                   [CubeOf(w, name) EXCEPT !.velocity = VScale(forward, strength + Max(0, momentumCarry)),
                                           !.isGrabbed = FALSE])

\* the start-charge callback of setupInputCallbacks (the E key goes down)
OnStartCharge(w, target) ==
  IF w.interaction.grabbedCube = "null"
  THEN (IF w.fps.enabled THEN TryGrabTarget(w, target) ELSE w)
  ELSE StartCharge(w)

\* the keys pressed in a session
KeyCodes == {"KeyW", "KeyQ", "KeyE", "Delete", "Escape"}

\* where the preview mesh is when the editor places an object: a grid point
\* of the ground plane
PlacePositions == {<<1000, 0, 1000>>}

\* chargeValue * throwStrength.max when the E key goes up: released after a
\* full charge
ThrowStrengths == {ThrowStrengthMax}

\* the crosshair's ray during the session: the edge of the back wall, where
\* placePortal rejects the placement
EdgeRay == <<Intersection("back", <<HalfRoom - PlacementMargin + 1, 1000, -HalfRoom>>, <<0, 0, 1>>)>>

\* the FPS controller after its constructor, on the camera of the scene
NewFps ==
  [position |-> <<0, 1600, 4000>>, quaternion |-> QIdentity, velocity |-> <<0, 0, 0>>, enabled |-> FALSE,
   canJump |-> TRUE, moveFwd |-> FALSE, moveBack |-> FALSE]

\* the program after new PortalGame()
NewWorld ==
  [portals |-> [a \in PortalNames |-> NewPortal], fps |-> NewFps, controller |-> IdleController,
   cube |-> IdleCube, game |-> NewGame, editMode |-> NewEditMode, interaction |-> NewInteraction,
   heap |-> <<>>, dom |-> NewDom, sceneGraph |-> NewSceneGraph]

\* a level in play, the pointer locked and the portals rendered, the player
\* having come to stand on the second floor in front of the goal; cubes is
\* the number of cubes the editor had placed before
AtTheGoal(cubes) ==
  Eval(IF cubes = 0 THEN NewWorld
       ELSE PlaceObject([NewWorld EXCEPT !.editMode.selectedObjectType = "cube"], CHOOSE q \in PlacePositions : TRUE),
       LAMBDA w0 :
  Eval(LockPointer(StartPlayMode([w0 EXCEPT !.editMode.selectedObjectType = "null"])), LAMBDA w1 :
    [w1 EXCEPT !.fps.position = <<-2500, 6100, -1700>>, !.portals = UpdateMatrixWorld(@)]))

\* the variables take the values of the world w
Becomes(w) ==
  /\ portals' = w.portals
  /\ fps' = w.fps
  /\ controller' = w.controller
  /\ cube' = w.cube
  /\ game' = w.game
  /\ editMode' = w.editMode
  /\ interaction' = w.interaction
  /\ heap' = w.heap
  /\ dom' = w.dom
  /\ sceneGraph' = w.sceneGraph

\* the last handler was not resetLevel
NoReset == [op |-> "none", threw |-> FALSE]

InitSession ==
  /\ \E w \in {NewWorld, AtTheGoal(0), AtTheGoal(1)} :
       /\ portals = w.portals
       /\ fps = w.fps
       /\ controller = w.controller
       /\ cube = w.cube
       /\ game = w.game
       /\ editMode = w.editMode
       /\ interaction = w.interaction
       /\ heap = w.heap
       /\ dom = w.dom
       /\ sceneGraph = w.sceneGraph
  /\ last = NoReset
  /\ rt = IdleRt
  /\ gl = IdleGl
  /\ storage = <<>>
  /\ manager = [currentSlot |-> 1]

\* the variables after an input event that leaves the world w
Event(w) == Becomes([w EXCEPT !.game.events = @ + 1])

\* a click on btn-play-mode, a button of the start menu
ClickPlayMode ==
  /\ game.events < MaxSessionEvents
  /\ ~dom.hidden.startMenu
  /\ ~fps.enabled
  /\ Event(StartPlayMode(World))
  /\ last' = NoReset
  /\ UNCHANGED <<rt, gl, storage, manager>>

\* a click on btn-edit-mode, a button of the start menu
ClickEditMode ==
  /\ game.events < MaxSessionEvents
  /\ ~dom.hidden.startMenu
  /\ ~fps.enabled
  /\ \E view \in EditViews : Event(StartEditMode(World, view))
  /\ last' = NoReset
  /\ UNCHANGED <<rt, gl, storage, manager>>

\* a click on btn-exit-edit, a button of the editor's panel
ClickExitEdit ==
  /\ game.events < MaxSessionEvents
  /\ ~dom.hidden.editUi
  /\ ~fps.enabled
  /\ Event(EditModeExit(World))
  /\ last' = NoReset
  /\ UNCHANGED <<rt, gl, storage, manager>>

\* a click on the cube button of the editor's panel: selectObjectType or,
\* when the type is selected already, clearObjectSelection
ClickObjectType ==
  /\ game.events < MaxSessionEvents
  /\ ~dom.hidden.editUi
  /\ ~fps.enabled
  /\ Event([World EXCEPT !.editMode.selectedObjectType = IF @ = "cube" THEN "null" ELSE "cube"])
  /\ last' = NoReset
  /\ UNCHANGED <<rt, gl, storage, manager>>

\* a click on back-to-menu
ClickBackToMenu ==
  /\ game.events < MaxSessionEvents
  /\ dom.backToMenu = "block"
  /\ game.wired
  /\ ~fps.enabled
  /\ Event(ExitToMenu(World))
  /\ last' = NoReset
  /\ UNCHANGED <<rt, gl, storage, manager>>

\* a click on retry-btn, a button of the level-complete panel
ClickRetry ==
  /\ game.events < MaxSessionEvents
  /\ ~dom.hidden.levelComplete
  /\ game.wired
  /\ ~fps.enabled
  /\ \E res \in {ResetLevel(World)} :
       /\ Event(res.world)
       /\ last' = [op |-> "resetLevel", threw |-> res.threw]
  /\ UNCHANGED <<rt, gl, storage, manager>>

\* a left click on the canvas: the mousedown listener of InputManager (the
\* blue portal callback), then the click listeners of FPSController (lock)
\* and of EditMode
CanvasClick ==
  /\ game.events < MaxSessionEvents
  /\ editMode.selectedObjectType # "null" => Cardinality(DOMAIN heap) < Len(ObjectIds)
  /\ \E position \in PlacePositions, target \in {"none"} \cup Selectable(World) :
       Event(EditModeClick(
                 LockPointer([World EXCEPT !.portals = IF game.wired /\ fps.enabled /\ game.hasPortals
                                                       THEN PlacePortalAt(@, "blue", EdgeRay).portals
                                                       ELSE @]),
                 position, target))
  /\ last' = NoReset
  /\ UNCHANGED <<rt, gl, storage, manager>>

\* a key goes down: the keydown listeners of FPSController, EditMode,
\* PortalGame (Escape, which also ends the pointer lock) and InputManager
\* (the E key), target being what the crosshair's ray hits within reach
KeyDown ==
  /\ game.events < MaxSessionEvents
  /\ \E code \in KeyCodes, target \in {"none"} \cup DynamicMeshes(World) :
       /\ code # "KeyE" => target = "none"
       /\ Event(
            Eval(EditModeKeyDown([World EXCEPT !.fps.moveFwd = IF code = "KeyW" THEN TRUE ELSE @], code),
                 LAMBDA w1 :
              IF code = "Escape" THEN UnlockPointer(w1)
              ELSE IF code = "KeyE" /\ w1.game.wired THEN OnStartCharge(w1, target)
              ELSE w1))
  /\ last' = NoReset
  /\ UNCHANGED <<rt, gl, storage, manager>>

\* a key goes up: the keyup listeners of FPSController and InputManager (the
\* release callback)
KeyUp ==
  /\ game.events < MaxSessionEvents
  /\ \/ /\ fps.moveFwd
        /\ Event([World EXCEPT !.fps.moveFwd = FALSE])
     \/ /\ game.wired
        /\ interaction.chargeActive
        /\ \E strength \in ThrowStrengths : Event(ReleaseThrow(World, strength))
  /\ last' = NoReset
  /\ UNCHANGED <<rt, gl, storage, manager>>

\* PortalGame.animate: in play mode updatePhysics, checkGoalCompletion and
\* render; in the editor and in the menu the render alone changes state
SessionTick ==
  /\ game.frame < MaxSessionFrames
  /\ IF game.mode = "play"
     THEN \E n \in {UpdatePhysics(portals, controller, fps, cube, heap, game, interaction, MaxDeltaTime, FALSE)} :
            \E goal \in {CheckGoalCompletion(game, n.fps)} :
               /\ portals' = UpdateMatrixWorld(n.portals)
               /\ fps' = goal.fps
               /\ controller' = n.controller
               /\ cube' = n.cube
               /\ heap' = n.heap
               /\ game' = [goal.game EXCEPT !.frame = @ + 1]
               /\ dom' = IF goal.game.levelCompleted /\ ~game.levelCompleted
                         THEN [dom EXCEPT !.hidden.levelComplete = FALSE,
                                          !.hidden.clickToPlay = IF n.fps.enabled /\ game.wired THEN FALSE ELSE @]
                         ELSE dom
     ELSE /\ portals' = UpdateMatrixWorld(portals)
          /\ game' = [game EXCEPT !.frame = @ + 1]
          /\ UNCHANGED <<fps, controller, cube, heap, dom>>
  /\ last' = NoReset
  /\ UNCHANGED <<rt, gl, editMode, interaction, sceneGraph, storage, manager>>

NextSession ==
  \/ ClickPlayMode \/ ClickEditMode \/ ClickExitEdit \/ ClickObjectType \/ ClickBackToMenu \/ ClickRetry
  \/ CanvasClick \/ KeyDown \/ KeyUp \/ SessionTick

SpecSession == InitSession /\ [][NextSession]_vars

\* the cubes of the program: the default cube and the cubes of the editor
AllCubes == {"defaultCube"} \cup DOMAIN heap

\* C26: a cube has isGrabbed = true if and only if it is the cube the
\* interaction system holds, whatever grabs, charges, throws, resets and
\* frames have happened.
C26_GrabConsistent ==
  \A c \in AllCubes : CubeOf(World, c).isGrabbed <=> interaction.grabbedCube = c

\* at most one cube is held, and the held cube is marked
C26_HeldIsGrabbed ==
  interaction.grabbedCube # "null" => CubeOf(World, interaction.grabbedCube).isGrabbed

\* C27: resetLevel completes without throwing in every play-mode state;
\* afterwards levelCompleted is false, the player is at the start position
\* with zero velocity, and both portals are at their initial wall places.
C27_RetrySucceeds ==
  last.op = "resetLevel" =>
    /\ ~last.threw
    /\ ~game.levelCompleted
    /\ fps.position = PlayerStartPosition
    /\ fps.velocity = <<0, 0, 0>>
    /\ \A a \in PortalNames :
         /\ portals[a].isPlaced
         /\ portals[a].position = PlaceInitialPortals([b \in PortalNames |-> NewPortal])[a].position

\* on a level that uses the default cube the retry succeeds
C27_DefaultLevelRetry ==
  (last.op = "resetLevel" /\ game.cube = "defaultCube") =>
    /\ ~last.threw
    /\ ~game.levelCompleted
    /\ fps.position = PlayerStartPosition
    /\ fps.velocity = <<0, 0, 0>>
    /\ \A a \in PortalNames :
         /\ portals[a].isPlaced
         /\ portals[a].position = PlaceInitialPortals([b \in PortalNames |-> NewPortal])[a].position

\* C28: while the mode is play the start menu is hidden and the play UI is
\* shown; the start menu is visible only while the mode is null.
C28_MenuExclusive ==
  /\ game.mode = "play" => (dom.hidden.startMenu /\ ~dom.hidden.ui)
  /\ ~dom.hidden.startMenu => game.mode = "null"

\* the play UI is shown while the mode is play
C28_PlayUiShown == game.mode = "play" => ~dom.hidden.ui

\* C29: while the mode is play the editor's listeners change no editor or
\* scene state: selectedObject stays null, no object leaves the scene or
\* editMode.objects, and transformControls stays disabled and invisible.
C29_EditorInert ==
  [][(game.mode = "play" /\ game'.mode = "play") =>
       /\ editMode'.selectedObject = "null"
       /\ editMode'.objects = editMode.objects
       /\ sceneGraph.children \subseteq sceneGraph'.children
       /\ ~editMode'.transformControls.enabled
       /\ ~editMode'.transformControls.visible]_vars

\* ---------------------------------------------------------------------------
\* LevelManager: the active slot and the three level slots in localStorage
\* ---------------------------------------------------------------------------

\* the largest argument setCurrentSlot is called with
MaxSlotInput == 4

SlotInputs == 0..MaxSlotInput

\* Number.prototype.toString of a small non-negative integer
Digits == <<"0", "1", "2", "3", "4", "5", "6", "7", "8", "9">>

NumberToString(n) == Digits[n + 1]

\* parseInt(stored, 10) of a string toString produced
ParseInt(str) == CHOOSE n \in 0..9 : NumberToString(n) = str

\* this.STORAGE_PREFIX + this.currentSlot
LevelKeys == <<"level_slot_0", "level_slot_1", "level_slot_2", "level_slot_3", "level_slot_4",
               "level_slot_5", "level_slot_6", "level_slot_7", "level_slot_8", "level_slot_9">>

LevelKey(slot) == LevelKeys[slot + 1]

\* the value of this.CURRENT_SLOT_KEY once the constructor has assigned it
CURRENT_SLOT_KEY == "current_level_slot"

\* the key localStorage.getItem sees for a field that is not assigned yet:
\* undefined is converted to the string "undefined"
UnassignedKey == "undefined"

\* JSON.stringify(serializeLevel(editMode)): the level carries the slot's name
SerializeLevel(slot) == "Level Slot " \o NumberToString(slot)

DefaultLevel == "Default Level"

GetItem(store, key) == IF key \in DOMAIN store THEN store[key] ELSE "null"

SetItem(store, key, value) == [k \in DOMAIN store \cup {key} |-> IF k = key THEN value ELSE store[k]]

RemoveItem(store, key) == [k \in DOMAIN store \ {key} |-> store[k]]

\* loadCurrentSlot as called with the given value of this.CURRENT_SLOT_KEY
LoadCurrentSlot(store, key) ==
  Eval(GetItem(store, key), LAMBDA stored : IF stored # "null" THEN ParseInt(stored) ELSE 1)

\* new LevelManager(): loadCurrentSlot runs first, while CURRENT_SLOT_KEY is
\* still unassigned
NewLevelManager(store) == [currentSlot |-> LoadCurrentSlot(store, UnassignedKey)]

InitSlots ==
  /\ portals = [a \in PortalNames |-> NewPortal]
  /\ fps = NewFps
  /\ controller = IdleController
  /\ cube = IdleCube
  /\ game = IdleGame
  /\ last = [op |-> "construct"]
  /\ rt = IdleRt
  /\ gl = IdleGl
  /\ editMode = NewEditMode
  /\ interaction = NewInteraction
  /\ heap = <<>>
  /\ dom = NewDom
  /\ sceneGraph = NewSceneGraph
  /\ storage = <<>>
  /\ manager = NewLevelManager(<<>>)

SlotsUnchanged == UNCHANGED <<portals, fps, controller, cube, game, rt, gl, editMode, interaction, heap, dom,
                              sceneGraph>>

\* a page load: a LevelManager is constructed over the same localStorage
Construct ==
  /\ manager' = NewLevelManager(storage)
  /\ last' = [op |-> "construct"]
  /\ UNCHANGED storage
  /\ SlotsUnchanged

SetCurrentSlot ==
  /\ \E slot \in SlotInputs :
       /\ IF slot < 1 \/ slot > 3
            THEN UNCHANGED <<manager, storage>>
            ELSE /\ manager' = [manager EXCEPT !.currentSlot = slot]
                 /\ storage' = SetItem(storage, CURRENT_SLOT_KEY, NumberToString(slot))
       /\ last' = [op |-> "setCurrentSlot", slot |-> slot]
  /\ SlotsUnchanged

SaveLevel ==
  /\ storage' = SetItem(storage, LevelKey(manager.currentSlot), SerializeLevel(manager.currentSlot))
  /\ last' = [op |-> "saveLevel", key |-> LevelKey(manager.currentSlot)]
  /\ UNCHANGED manager
  /\ SlotsUnchanged

LoadLevel ==
  /\ last' = [op |-> "loadLevel", key |-> LevelKey(manager.currentSlot),
              level |-> Eval(GetItem(storage, LevelKey(manager.currentSlot)),
                             LAMBDA stored : IF stored = "null" THEN DefaultLevel ELSE stored)]
  /\ UNCHANGED <<manager, storage>>
  /\ SlotsUnchanged

ResetToDefault ==
  /\ storage' = RemoveItem(storage, LevelKey(manager.currentSlot))
  /\ last' = [op |-> "resetToDefault", key |-> LevelKey(manager.currentSlot)]
  /\ UNCHANGED manager
  /\ SlotsUnchanged

NextSlots == Construct \/ SetCurrentSlot \/ SaveLevel \/ LoadLevel \/ ResetToDefault

SpecSlots == InitSlots /\ [][NextSlots]_vars

\* C30: after setCurrentSlot(s) with s in 1..3, a LevelManager constructed
\* later over the same localStorage reports s as its current slot, so its
\* saveLevel, loadLevel and resetToDefault operate on slot s.
C30_ActiveSlotPersists ==
  (last.op = "construct" /\ CURRENT_SLOT_KEY \in DOMAIN storage) =>
    manager.currentSlot = ParseInt(storage[CURRENT_SLOT_KEY])

\* setCurrentSlot with a value outside 1..3 changes neither currentSlot nor
\* localStorage
C30_InvalidSlotIgnored ==
  [][(last'.op = "setCurrentSlot" /\ (last'.slot < 1 \/ last'.slot > 3)) =>
       (manager' = manager /\ storage' = storage)]_vars

\* the manager setCurrentSlot was called on reports the slot and has written it
C30_SlotWritten ==
  (last.op = "setCurrentSlot" /\ last.slot \in 1..3) =>
    /\ manager.currentSlot = last.slot
    /\ GetItem(storage, CURRENT_SLOT_KEY) = NumberToString(last.slot)

\* saveLevel, loadLevel and resetToDefault use the slot of the manager in hand
C30_OperatesOnCurrentSlot ==
  last.op \in {"saveLevel", "loadLevel", "resetToDefault"} => last.key = LevelKey(manager.currentSlot)

\* a manager constructed after slot 2 was chosen
C30_ConstructedAfterChoice ==
  last.op = "construct" /\ GetItem(storage, CURRENT_SLOT_KEY) = "2"

====
